---------------------------- MODULE Spec2Model ----------------------------
(***************************************************************************)
(* Branching conversation history of the chat webview                      *)
(* (src/src/webview/scripts.js): the tree of branches kept in              *)
(* chatBranches, the current path, and the handlers that mutate them.      *)
(*                                                                         *)
(* Branch objects are JavaScript objects reached through references, so    *)
(* the model keeps them in a heap: heap[r] is the branch object with       *)
(* reference r, and chatBranches.branches[1] is the reference RootRef.     *)
(* A fork table branches[messageId] is a function from branch index to     *)
(* the reference of the child branch.                                      *)
(*                                                                         *)
(* Spec is the machine of the handlers called with any argument, SpecUI    *)
(* the one of the events the rendered page offers, SpecTests the one of    *)
(* the direct calls of src/src/webview/tests.js, and SpecExt the machine   *)
(* of the earlier script embedded in src/extension.js.                     *)
(***************************************************************************)
EXTENDS Integers, Sequences, FiniteSets, TLC

\* ------------------------------------------------------------------ bounds
MaxIds == 5         \* message ids handed out by generateMessageId: 1..MaxIds
MaxTestIds == 6     \* message ids handed out while the tests.js harness runs
MaxExtIds == 4      \* message ids handed out by the script of src/extension.js
MaxBranchArg == 3   \* branch indices tried as switchBranch arguments: 1..MaxBranchArg
MaxPending == 2     \* bot responses in flight at once

Contents == {"x", "y"}        \* non-empty texts typed by the user
BotText == "1"                \* the extension host always answers "1"
NoId == 0                     \* null / no message id
RootRef == 1                  \* chatBranches.branches[1]
RootKey == 1                  \* chatBranches.currentPath[0]

VARIABLES
    heap,               \* branch objects: Seq of [messages, branches, parent]
    currentPath,        \* chatBranches.currentPath
    editingMessageId,   \* the message being edited, or NoId
    nextId,             \* next id handed out by generateMessageId
    pending             \* number of 'response' events not yet delivered

vars == <<heap, currentPath, editingMessageId, nextId, pending>>

\* ------------------------------------------------------------ JS helpers
EmptyMap == [k \in {} |-> 0]

\* Array.prototype.findIndex(m => m.id === id): 0-based index, or -1
RECURSIVE FindIndexFrom(_, _, _)
FindIndexFrom(messages, id, i) ==
    IF i > Len(messages) THEN -1
    ELSE IF messages[i].id = id THEN i - 1
    ELSE FindIndexFrom(messages, id, i + 1)

FindIndex(messages, id) == FindIndexFrom(messages, id, 1)

\* Array.prototype.slice(from) and slice(0, to), 0-based as in the source
SliceFrom(messages, from) == SubSeq(messages, from + 1, Len(messages))
SliceTo(messages, to) == SubSeq(messages, 1, to)

\* Math.max over a non-empty set of integers
MaxOf(S) == CHOOSE m \in S : \A n \in S : n <= m

\* Object.keys(...).sort((a, b) => parseInt(a) - parseInt(b))
RECURSIVE SortedKeys(_)
SortedKeys(S) ==
    IF S = {} THEN <<>>
    ELSE LET m == CHOOSE x \in S : \A y \in S : x <= y
         IN  <<m>> \o SortedKeys(S \ {m})

\* the ids of the messages of a sequence
IdsOf(messages) == {messages[i].id : i \in 1..Len(messages)}

\* a message object literal
Message(id, content, sender) == [id |-> id, content |-> content, sender |-> sender]

\* a branch object literal
Branch(messages, parent) == [messages |-> messages, branches |-> EmptyMap, parent |-> parent]

\* o[k] = v on an object o seen as a map
Put(o, k, v) == [x \in (DOMAIN o) \cup {k} |-> IF x = k THEN v ELSE o[x]]

\* ---------------------------------------------------------- initial state
\* let chatBranches = { currentPath: [1], branches: { 1: {messages: [], ...} } }
InitialHeap == <<Branch(<<>>, 0)>>
InitialPath == <<RootKey>>

Init ==
    /\ heap = InitialHeap
    /\ currentPath = InitialPath
    /\ editingMessageId = NoId
    /\ nextId = 1
    /\ pending = 0


\* ------------------------------------------------------- getCurrentBranch
\* the for loop of getCurrentBranch: the child under the first message of
\* branch object b whose fork table has the key nextBranchId; 0 when none
RECURSIVE FindBranching(_, _, _)
FindBranching(b, nextBranchId, i) ==
    IF i > Len(b.messages) THEN 0
    ELSE LET messageId == b.messages[i].id
         IN  IF /\ messageId \in DOMAIN b.branches
                /\ nextBranchId \in DOMAIN b.branches[messageId]
             THEN b.branches[messageId][nextBranchId]
             ELSE FindBranching(b, nextBranchId, i + 1)

\* the while loop of getCurrentBranch; pathIndex is 0-based as in the source
RECURSIVE GetCurrentBranchFrom(_, _, _, _)
GetCurrentBranchFrom(h, cp, cur, pathIndex) ==
    IF pathIndex < Len(cp) - 1
    THEN LET next == FindBranching(h[cur], cp[pathIndex + 2], 1)
         IN  IF next = 0 THEN cur    \* 'Returning last valid branch'
             ELSE GetCurrentBranchFrom(h, cp, next, pathIndex + 1)
    ELSE cur

GetCurrentBranch(h, cp) == GetCurrentBranchFrom(h, cp, RootRef, 0)

\* ------------------------------------------------------ getMaxBranchIndex
\* the maximum over the keys of every fork table of the object `branches`
GetMaxBranchIndex(branches) ==
    IF DOMAIN branches = {} THEN 1
    ELSE MaxOf(UNION {DOMAIN branches[k] : k \in DOMAIN branches})

\* -------------------------------------------------------- createNewBranch
Thrown == [kind |-> "throw", branch |-> 0, index |-> -1]
NotFound == [kind |-> "null", branch |-> 0, index |-> -1]

\* the search loop of createNewBranch (lines 86-101): the branch on the
\* walk from the root that holds messageId. The walk takes the message at
\* position pathIndex of each branch as its fork point.
RECURSIVE FindTargetBranch(_, _, _, _, _)
FindTargetBranch(h, cp, messageId, cur, pathIndex) ==
    LET targetMessageIndex == FindIndex(h[cur].messages, messageId)
    IN  IF targetMessageIndex # -1
        THEN [kind |-> "found", branch |-> cur, index |-> targetMessageIndex]
        ELSE IF pathIndex + 1 < Len(cp)
        THEN IF pathIndex >= Len(h[cur].messages)
             THEN Thrown          \* messages[pathIndex] is undefined: .id throws
             ELSE LET nextMessageId == h[cur].messages[pathIndex + 1].id
                      nextBranchId == cp[pathIndex + 2]
                  IN  IF nextMessageId \notin DOMAIN h[cur].branches
                      THEN Thrown \* branches[nextMessageId] is undefined: [..] throws
                      ELSE IF nextBranchId \notin DOMAIN h[cur].branches[nextMessageId]
                      THEN NotFound   \* currentBranch becomes undefined, loop ends
                      ELSE FindTargetBranch(h, cp, messageId,
                               h[cur].branches[nextMessageId][nextBranchId],
                               pathIndex + 1)
        ELSE NotFound

\* a first fork whose child "1" is the forked branch itself
FirstForkSelfChild(h, t, i, messageId, newId, content) ==
    LET branch1 == Branch(SliceFrom(h[t].messages, i + 1), t)
        branch2 == Branch(<<Message(newId, content, "user")>>, t)
        table == (1 :> t) @@ (2 :> Len(h) + 2)
        target == [h[t] EXCEPT !.branches = Put(h[t].branches, messageId, table),
                               !.messages = SliceTo(h[t].messages, i + 1)]
    IN  [heap |-> Append(Append([h EXCEPT ![t] = target], branch1), branch2),
         ret |-> 2]

\* first fork (lines 108-135): children "1" and "2", parent truncated
FirstFork(h, t, i, messageId, newId, content) ==
    LET branch1 == Branch(SliceFrom(h[t].messages, i + 1), t)
        branch2 == Branch(<<Message(newId, content, "user")>>, t)
        r1 == Len(h) + 1
        r2 == Len(h) + 2
        table == (1 :> r1) @@ (2 :> r2)
        target == [h[t] EXCEPT !.branches = Put(h[t].branches, messageId, table),
                               !.messages = SliceTo(h[t].messages, i + 1)]
    IN  [heap |-> Append(Append([h EXCEPT ![t] = target], branch1), branch2),
         ret |-> 2]

\* later fork (lines 136-151): one more child, keyed getMaxBranchIndex + 1
NextFork(h, t, messageId, newId, content) ==
    LET maxIndex == GetMaxBranchIndex(h[t].branches)
        newIndex == maxIndex + 1
        r == Len(h) + 1
        table == Put(h[t].branches[messageId], newIndex, r)
        target == [h[t] EXCEPT !.branches = Put(h[t].branches, messageId, table)]
    IN  [heap |-> Append([h EXCEPT ![t] = target],
                         Branch(<<Message(newId, content, "user")>>, t)),
         ret |-> newIndex]

\* createNewBranch(messageId, content): the heap afterwards, the value
\* returned (0 for null) and whether the call threw
CreateNewBranch(h, cp, messageId, newId, content) ==
    LET f == FindTargetBranch(h, cp, messageId, RootRef, 0)
    IN  IF f.kind = "throw" THEN [heap |-> h, ret |-> 0, threw |-> TRUE]
        ELSE IF f.kind = "null" THEN [heap |-> h, ret |-> 0, threw |-> FALSE]
        ELSE LET r == IF messageId \notin DOMAIN h[f.branch].branches
                      THEN FirstFork(h, f.branch, f.index, messageId, newId, content)
                      ELSE NextFork(h, f.branch, messageId, newId, content)
             IN  [heap |-> r.heap, ret |-> r.ret, threw |-> FALSE]

\* ------------------------------------------------------------- renderChat
\* the loop of appendMessageToChat (lines 338-357) that finds the branch
\* index selected at the fork point messageId; -1 when it finds none
RECURSIVE FindCurrentBranchIndex(_, _, _, _, _)
FindCurrentBranchIndex(h, cp, messageId, branch, pathIndex) ==
    LET msgIndex == FindIndex(h[branch].messages, messageId)
    IN  IF msgIndex # -1 /\ pathIndex + 1 < Len(cp)
        THEN [threw |-> FALSE, index |-> cp[pathIndex + 2]]
        ELSE IF pathIndex + 1 < Len(cp)
        THEN IF pathIndex >= Len(h[branch].messages)
             THEN [threw |-> TRUE, index |-> -1]
             ELSE LET nextMessageId == h[branch].messages[pathIndex + 1].id
                      nextBranchId == cp[pathIndex + 2]
                  IN  IF nextMessageId \notin DOMAIN h[branch].branches
                      THEN [threw |-> TRUE, index |-> -1]
                      ELSE IF nextBranchId \notin DOMAIN h[branch].branches[nextMessageId]
                      THEN [threw |-> FALSE, index |-> -1]
                      ELSE FindCurrentBranchIndex(h, cp, messageId,
                               h[branch].branches[nextMessageId][nextBranchId],
                               pathIndex + 1)
        ELSE [threw |-> FALSE, index |-> -1]

\* appendMessageToChat: the entry painted for one message, and whether
\* painting it threw (nothing is appended to chatBox in that case)
AppendMessageToChat(h, cp, message, hasBranches, branches, depth, isActive) ==
    LET f == IF hasBranches
             THEN FindCurrentBranchIndex(h, cp, message.id, RootRef, 0)
             ELSE [threw |-> FALSE, index |-> -1]
        currentBranchId == IF f.index # -1 THEN f.index ELSE 1
    IN  [threw |-> f.threw,
         entry |-> [message |-> message, hasBranches |-> hasBranches,
                    branches |-> branches, depth |-> depth, isActive |-> isActive,
                    currentBranchId |-> IF hasBranches THEN currentBranchId ELSE 0]]

\* path.length < currentPath.length && path.every((v, i) => v === currentPath[i])
IsOnCurrentPath(cp, path) ==
    /\ Len(path) < Len(cp)
    /\ \A i \in 1..Len(path) : path[i] = cp[i]

\* a renderBranch that renders the branch below a fork at the depth of
\* the fork
RECURSIVE RenderBranchSameDepth(_, _, _, _, _, _)
RenderBranchSameDepth(h, cp, branch, path, depth, i) ==
    IF i > Len(h[branch].messages) THEN [out |-> <<>>, threw |-> FALSE]
    ELSE
    LET message == h[branch].messages[i]
        hasBranches == /\ message.id \in DOMAIN h[branch].branches
                       /\ DOMAIN h[branch].branches[message.id] # {}
        isOnCurrentPath == IsOnCurrentPath(cp, path)
        isActive == isOnCurrentPath \/ Len(path) >= Len(cp)
        keys == IF message.id \in DOMAIN h[branch].branches
                THEN SortedKeys(DOMAIN h[branch].branches[message.id])
                ELSE <<>>
        a == AppendMessageToChat(h, cp, message, hasBranches, keys, depth, isActive)
    IN  IF a.threw THEN [out |-> <<>>, threw |-> TRUE]
        ELSE
        LET nextBranchId == cp[Len(path) + 1]
            descend == /\ hasBranches
                       /\ isOnCurrentPath
                       /\ nextBranchId \in DOMAIN h[branch].branches[message.id]
            sub == IF descend
                   THEN RenderBranchSameDepth(h, cp, h[branch].branches[message.id][nextBranchId],
                                     Append(path, nextBranchId), depth, 1)
                   ELSE [out |-> <<>>, threw |-> FALSE]
        IN  IF sub.threw THEN [out |-> <<a.entry>> \o sub.out, threw |-> TRUE]
            ELSE LET rest == RenderBranchSameDepth(h, cp, branch, path, depth, i + 1)
                 IN  [out |-> <<a.entry>> \o sub.out \o rest.out, threw |-> rest.threw]

\* renderBranch(branch, path, depth), from message number i (1-based) on:
\* the entries appended to chatBox and whether an exception ended the render
RECURSIVE RenderBranch(_, _, _, _, _, _)
RenderBranch(h, cp, branch, path, depth, i) ==
    IF i > Len(h[branch].messages) THEN [out |-> <<>>, threw |-> FALSE]
    ELSE
    LET message == h[branch].messages[i]
        hasBranches == /\ message.id \in DOMAIN h[branch].branches
                       /\ DOMAIN h[branch].branches[message.id] # {}
        isOnCurrentPath == IsOnCurrentPath(cp, path)
        isActive == isOnCurrentPath \/ Len(path) >= Len(cp)
        keys == IF message.id \in DOMAIN h[branch].branches
                THEN SortedKeys(DOMAIN h[branch].branches[message.id])
                ELSE <<>>
        a == AppendMessageToChat(h, cp, message, hasBranches, keys, depth, isActive)
    IN  IF a.threw THEN [out |-> <<>>, threw |-> TRUE]
        ELSE
        LET nextBranchId == cp[Len(path) + 1]
            descend == /\ hasBranches
                       /\ isOnCurrentPath
                       /\ nextBranchId \in DOMAIN h[branch].branches[message.id]
            sub == IF descend
                   THEN RenderBranch(h, cp, h[branch].branches[message.id][nextBranchId],
                                     Append(path, nextBranchId), depth + 1, 1)
                   ELSE [out |-> <<>>, threw |-> FALSE]
        IN  IF sub.threw THEN [out |-> <<a.entry>> \o sub.out, threw |-> TRUE]
            ELSE LET rest == RenderBranch(h, cp, branch, path, depth, i + 1)
                 IN  [out |-> <<a.entry>> \o sub.out \o rest.out, threw |-> rest.threw]

\* renderChat(): chatBox is cleared and the root branch is rendered
RenderChat(h, cp) == RenderBranch(h, cp, RootRef, <<cp[1]>>, 0, 1)

\* the messages of the entries of a render, in order
MessagesOf(entries) == [i \in 1..Len(entries) |-> entries[i].message]

\* the flat message sequence a render shows
Project(h, cp) == MessagesOf(RenderChat(h, cp).out)

\* ----------------------------------------------------------- switchBranch
\* the search loop of switchBranch (lines 161-179): the path prefix that
\* reaches the branch holding messageId
RECURSIVE FindSwitchPath(_, _, _, _, _, _)
FindSwitchPath(h, cp, messageId, cur, pathIndex, newPath) ==
    LET msgIndex == FindIndex(h[cur].messages, messageId)
    IN  IF msgIndex # -1 THEN [kind |-> "found", path |-> newPath]
        ELSE IF pathIndex + 1 < Len(cp)
        THEN IF pathIndex >= Len(h[cur].messages)
             THEN [kind |-> "throw", path |-> newPath]
             ELSE LET nextMessageId == h[cur].messages[pathIndex + 1].id
                      nextBranchId == cp[pathIndex + 2]
                  IN  IF \/ nextMessageId \notin DOMAIN h[cur].branches
                         \/ nextBranchId \notin DOMAIN h[cur].branches[nextMessageId]
                      THEN [kind |-> "null", path |-> newPath]
                      ELSE FindSwitchPath(h, cp, messageId,
                               h[cur].branches[nextMessageId][nextBranchId],
                               pathIndex + 1, Append(newPath, nextBranchId))
        ELSE [kind |-> "null", path |-> newPath]

\* switchBranch(messageId, branchIndex): the current path afterwards,
\* whether the message was found, and whether the call (or its render) threw
SwitchBranch(h, cp, messageId, branchIndex) ==
    LET f == FindSwitchPath(h, cp, messageId, RootRef, 0, <<cp[1]>>)
    IN  IF f.kind = "throw" THEN [path |-> cp, found |-> FALSE, threw |-> TRUE]
        ELSE IF f.kind = "null" THEN [path |-> cp, found |-> FALSE, threw |-> FALSE]
        ELSE LET newPath == Append(f.path, branchIndex)
             IN  [path |-> newPath, found |-> TRUE,
                  threw |-> RenderChat(h, newPath).threw]

\* ---------------------------------------------------------------- handlers
MessageIds == 1..MaxIds
BranchArgs == 1..MaxBranchArg

\* handleMessageSubmit with editingMessageId = editing (lines 217-236):
\* createNewBranch, then switchBranch to the new index, then postMessage.
\* ret is the index createNewBranch returned (0 when it was not called, or
\* returned null, or threw); posted tells whether postMessage was reached.
EditSubmit(h, cp, nid, editing, content) ==
    LET activeBranch == GetCurrentBranch(h, cp)
        messageIndex == FindIndex(h[activeBranch].messages, editing)
        c == CreateNewBranch(h, cp, editing, nid, content)
        s == SwitchBranch(c.heap, cp, editing, c.ret)
        nothing == [heap |-> h, path |-> cp, editing |-> editing,
                    ret |-> 0, posted |-> FALSE, threw |-> FALSE]
    IN  IF messageIndex = -1 THEN nothing
        ELSE IF c.threw THEN [nothing EXCEPT !.threw = TRUE]
        ELSE IF c.ret = 0 THEN nothing
        ELSE [heap |-> c.heap, path |-> s.path,
              editing |-> IF s.threw THEN editing ELSE NoId,
              ret |-> c.ret, posted |-> ~s.threw, threw |-> s.threw]

SubmitEdit(content) ==
    LET r == EditSubmit(heap, currentPath, nextId, editingMessageId, content)
    IN  /\ r.ret # 0 => nextId <= MaxIds
        /\ r.posted => pending < MaxPending
        /\ heap' = r.heap
        /\ currentPath' = r.path
        /\ editingMessageId' = r.editing
        /\ nextId' = IF r.ret # 0 THEN nextId + 1 ELSE nextId
        /\ pending' = IF r.posted THEN pending + 1 ELSE pending

\* a variant of the branch below that puts the new message in front of the
\* messages of the active branch (unshift for push)
SubmitNewUnshift(content) ==
    LET activeBranch == GetCurrentBranch(heap, currentPath)
        newMessage == Message(nextId, content, "user")
        h2 == [heap EXCEPT ![activeBranch].messages = <<newMessage>> \o @]
    IN  /\ nextId <= MaxIds
        /\ heap' = h2
        /\ nextId' = nextId + 1
        /\ IF RenderChat(h2, currentPath).threw
           THEN UNCHANGED pending
           ELSE /\ pending < MaxPending
                /\ pending' = pending + 1
        /\ UNCHANGED <<currentPath, editingMessageId>>

\* handleMessageSubmit with no edit pending (lines 237-258):
\* push, renderChat, then postMessage
SubmitNew(content) ==
    LET activeBranch == GetCurrentBranch(heap, currentPath)
        newMessage == Message(nextId, content, "user")
        h2 == [heap EXCEPT ![activeBranch].messages = Append(@, newMessage)]
    IN  /\ nextId <= MaxIds
        /\ heap' = h2
        /\ nextId' = nextId + 1
        /\ IF RenderChat(h2, currentPath).threw
           THEN UNCHANGED pending
           ELSE /\ pending < MaxPending
                /\ pending' = pending + 1
        /\ UNCHANGED <<currentPath, editingMessageId>>

\* handleMessageSubmit(): the text box holds content
HandleMessageSubmit(content) ==
    IF content = "" THEN UNCHANGED vars
    ELSE IF editingMessageId # NoId THEN SubmitEdit(content)
    ELSE SubmitNew(content)

\* editMessage(messageId), the edit button of a message: throws on
\* message.content when the current branch does not hold messageId
EditMessageThrows(h, cp, messageId) ==
    FindIndex(h[GetCurrentBranch(h, cp)].messages, messageId) = -1

EditMessage(messageId) ==
    /\ editingMessageId' =
           IF EditMessageThrows(heap, currentPath, messageId)
           THEN editingMessageId ELSE messageId
    /\ UNCHANGED <<heap, currentPath, nextId, pending>>

\* the edit of a message as the user performs it: the edit button of
\* messageId (editMessage), then the submit of the new text
EditMessageOp(h, cp, nid, editing, messageId, content) ==
    IF EditMessageThrows(h, cp, messageId)
    THEN [heap |-> h, path |-> cp, editing |-> editing,
          ret |-> 0, posted |-> FALSE, threw |-> TRUE]
    ELSE EditSubmit(h, cp, nid, messageId, content)

\* switchBranch(messageId, branchIndex) called from a branch button or arrow
SwitchBranchCall(messageId, branchIndex) ==
    /\ currentPath' = SwitchBranch(heap, currentPath, messageId, branchIndex).path
    /\ UNCHANGED <<heap, editingMessageId, nextId, pending>>

\* the 'response' case of the window message listener (lines 449-473)
OnResponse ==
    LET messageObj == Message(nextId, BotText, "bot")
        currentBranch == GetCurrentBranch(heap, currentPath)
    IN  /\ pending > 0
        /\ nextId <= MaxIds
        /\ heap' = [heap EXCEPT ![currentBranch].messages = Append(@, messageObj)]
        /\ nextId' = nextId + 1
        /\ pending' = pending - 1
        /\ UNCHANGED <<currentPath, editingMessageId>>

\* a new chat that replaces the tree and keeps the current path
StartNewChatKeepPath ==
    /\ heap' = InitialHeap
    /\ UNCHANGED <<currentPath, editingMessageId, nextId, pending>>

\* startNewChat()
StartNewChat ==
    /\ heap' = InitialHeap
    /\ currentPath' = InitialPath
    /\ UNCHANGED <<editingMessageId, nextId, pending>>

Next ==
    \/ \E content \in Contents \cup {""} : HandleMessageSubmit(content)
    \/ \E messageId \in MessageIds : EditMessage(messageId)
    \/ \E messageId \in MessageIds, branchIndex \in BranchArgs :
           SwitchBranchCall(messageId, branchIndex)
    \/ OnResponse
    \/ StartNewChat

Spec == Init /\ [][Next]_vars

\* ------------------------------------------------- the rendered controls
\* What the user can click is what the last render painted. Every handler
\* that changes the tree or the path ends in renderChat, so chatBox shows
\* RenderChat(heap, currentPath).out.
ChatBox == RenderChat(heap, currentPath).out

\* the branch indices the controls of a painted fork point lead to
\* (lines 373-424): one button per branch index, hidden when the entry is
\* inactive and the index is not the selected one; the arrows go to
\* currentBranchId - 1 and currentBranchId + 1
BranchControls(e) ==
    LET keys == {e.branches[j] : j \in 1..Len(e.branches)}
    IN  {b \in keys : e.isActive \/ b = e.currentBranchId}
          \cup {b \in {e.currentBranchId - 1} : e.currentBranchId > 1}
          \cup {b \in {e.currentBranchId + 1} : e.currentBranchId < MaxOf(keys)}

\* the edit button, painted for the messages of the user (lines 432-438)
ClickEdit ==
    LET box == ChatBox
    IN  \E k \in 1..Len(box) :
            /\ box[k].message.sender = "user"
            /\ EditMessage(box[k].message.id)

\* a branch button or an arrow of a painted fork point
ClickBranch ==
    LET box == ChatBox
    IN  \E k \in 1..Len(box) :
            /\ box[k].hasBranches
            /\ \E branchIndex \in BranchControls(box[k]) :
                   SwitchBranchCall(box[k].message.id, branchIndex)

\* the events the rendered page offers
NextUI ==
    \/ \E content \in Contents \cup {""} : HandleMessageSubmit(content)
    \/ ClickEdit
    \/ ClickBranch
    \/ OnResponse
    \/ StartNewChat

SpecUI == Init /\ [][NextUI]_vars

\* the runs without edits: submits of new text, responses of the host and
\* new chats
NextAppend ==
    \/ \E content \in Contents \cup {""} : HandleMessageSubmit(content)
    \/ OnResponse
    \/ StartNewChat

SpecAppend == Init /\ [][NextAppend]_vars

\* ------------------------------------------------------- tests.js harness
\* The harness of src/src/webview/tests.js calls the tree operations
\* directly: it pushes messages onto the root branch and calls
\* createNewBranch on its own, with currentPath left at the root. It builds
\* its tree in its rebound chatBranches parameter; the model lets it work on
\* the tree createNewBranch works on, where alone its calls can fork.
TestMessageIds == 1..MaxTestIds

\* simulateUserMessage / simulateBotMessage: push onto branches['1']
SimulateMessage(content, sender) ==
    /\ nextId <= MaxTestIds
    /\ heap' = [heap EXCEPT ![RootRef].messages =
                    Append(@, Message(nextId, content, sender))]
    /\ nextId' = nextId + 1
    /\ UNCHANGED <<currentPath, editingMessageId, pending>>

\* createNewBranch(messageId, content) called on its own
TestCreateNewBranch(messageId, content) ==
    LET c == CreateNewBranch(heap, currentPath, messageId, nextId, content)
    IN  /\ c.ret # 0
        /\ nextId <= MaxTestIds
        /\ heap' = c.heap
        /\ nextId' = nextId + 1
        /\ UNCHANGED <<currentPath, editingMessageId, pending>>

TestNext ==
    \/ SimulateMessage("x", "user")
    \/ SimulateMessage(BotText, "bot")
    \/ \E messageId \in TestMessageIds, content \in Contents :
           TestCreateNewBranch(messageId, content)

SpecTests == Init /\ [][TestNext]_vars

\* ===================================================== src/extension.js
\* The script embedded in src/extension.js is an earlier version of the
\* same handlers. It keeps the same tree (without the parent field, never
\* read by either version) and differs in getCurrentBranch,
\* createNewBranch, switchBranch, the branch indicator of
\* appendMessageToChat and the end of handleMessageSubmit.

\* chatBranches.branches[currentPath[0]]: only the key 1 exists; 0 is undefined
RootOf(cp) == IF Len(cp) >= 1 /\ cp[1] = RootKey THEN RootRef ELSE 0

\* getCurrentBranch() of extension.js (lines 162-169): the fork point of
\* path element i is taken to be message i - 1 of the branch reached so far.
\* branch = 0 stands for undefined.
RECURSIVE GetCurrentBranchExtFrom(_, _, _, _)
GetCurrentBranchExtFrom(h, cp, cur, i) ==
    IF i >= Len(cp) THEN [threw |-> FALSE, branch |-> cur]
    ELSE IF cur = 0 THEN [threw |-> TRUE, branch |-> 0]     \* undefined.messages
    ELSE IF i - 1 >= Len(h[cur].messages)
    THEN [threw |-> TRUE, branch |-> 0]                     \* messages[i - 1].id
    ELSE LET messageId == h[cur].messages[i].id
         IN  IF messageId \notin DOMAIN h[cur].branches
             THEN [threw |-> TRUE, branch |-> 0]            \* branches[messageId][..]
             ELSE IF cp[i + 1] \notin DOMAIN h[cur].branches[messageId]
             THEN GetCurrentBranchExtFrom(h, cp, 0, i + 1)
             ELSE GetCurrentBranchExtFrom(h, cp,
                      h[cur].branches[messageId][cp[i + 1]], i + 1)

GetCurrentBranchExt(h, cp) == GetCurrentBranchExtFrom(h, cp, RootOf(cp), 1)

\* createNewBranch of extension.js (lines 178-214): forks the current
\* branch at messageId; the messages of the current branch are not cut
CreateNewBranchExt(h, cp, messageId, newId, content) ==
    LET g == GetCurrentBranchExt(h, cp)
        t == g.branch
    IN  IF g.threw \/ t = 0 THEN [heap |-> h, ret |-> 0, threw |-> TRUE]
        ELSE
        LET messageIndex == FindIndex(h[t].messages, messageId)
            newBranch == Branch(<<Message(newId, content, "user")>>, 0)
        IN  IF messageId \notin DOMAIN h[t].branches
            THEN LET table == (1 :> Len(h) + 1) @@ (2 :> Len(h) + 2)
                     target == [h[t] EXCEPT !.branches = Put(@, messageId, table)]
                 IN  [heap |-> Append(Append([h EXCEPT ![t] = target],
                                  Branch(SliceFrom(h[t].messages, messageIndex + 1), 0)),
                                  newBranch),
                      ret |-> 2, threw |-> FALSE]
            ELSE LET newIndex == GetMaxBranchIndex(h[t].branches) + 1
                     table == Put(h[t].branches[messageId], newIndex, Len(h) + 1)
                     target == [h[t] EXCEPT !.branches = Put(@, messageId, table)]
                 IN  [heap |-> Append([h EXCEPT ![t] = target], newBranch),
                      ret |-> newIndex, threw |-> FALSE]

\* the loop of appendMessageToChat of extension.js (lines 342-353) that
\* finds the selected branch of a fork point: it looks at the messages of
\* the root branch only
RECURSIVE FindCurrentBranchIndexExt(_, _, _, _)
FindCurrentBranchIndexExt(h, cp, messageId, i) ==
    IF i >= Len(cp) - 1 THEN 1
    ELSE IF /\ i < Len(h[RootRef].messages)
            /\ h[RootRef].messages[i + 1].id = messageId
    THEN cp[i + 2]
    ELSE FindCurrentBranchIndexExt(h, cp, messageId, i + 1)

\* renderBranch of extension.js (lines 294-327), from message number i on
RECURSIVE RenderBranchExt(_, _, _, _, _, _)
RenderBranchExt(h, cp, branch, path, depth, i) ==
    IF i > Len(h[branch].messages) THEN <<>>
    ELSE
    LET message == h[branch].messages[i]
        hasBranches == /\ message.id \in DOMAIN h[branch].branches
                       /\ DOMAIN h[branch].branches[message.id] # {}
        isOnCurrentPath == IsOnCurrentPath(cp, path)
        keys == IF message.id \in DOMAIN h[branch].branches
                THEN SortedKeys(DOMAIN h[branch].branches[message.id])
                ELSE <<>>
        entry == [message |-> message, hasBranches |-> hasBranches,
                  branches |-> keys, depth |-> depth,
                  isActive |-> isOnCurrentPath \/ Len(path) >= Len(cp),
                  currentBranchId |->
                      IF hasBranches
                      THEN FindCurrentBranchIndexExt(h, cp, message.id, 0)
                      ELSE 0]
        nextBranchId == cp[Len(path) + 1]
        descend == /\ hasBranches
                   /\ isOnCurrentPath
                   /\ nextBranchId \in DOMAIN h[branch].branches[message.id]
        sub == IF descend
               THEN RenderBranchExt(h, cp, h[branch].branches[message.id][nextBranchId],
                                    Append(path, nextBranchId), depth + 1, 1)
               ELSE <<>>
    IN  <<entry>> \o sub \o RenderBranchExt(h, cp, branch, path, depth, i + 1)

\* renderChat() of extension.js: throws when currentPath[0] names no branch
RenderChatExt(h, cp) ==
    IF RootOf(cp) = 0 THEN [out |-> <<>>, threw |-> TRUE]
    ELSE [out |-> RenderBranchExt(h, cp, RootRef, <<cp[1]>>, 0, 1), threw |-> FALSE]

ProjectExt(h, cp) == MessagesOf(RenderChatExt(h, cp).out)

\* switchBranch of extension.js (lines 216-227): the new path is the first
\* messageIndex + 1 elements of the old one, then branchIndex
SwitchBranchExt(h, cp, messageId, branchIndex) ==
    LET g == GetCurrentBranchExt(h, cp)
    IN  IF g.threw \/ g.branch = 0 THEN [path |-> cp, threw |-> TRUE]
        ELSE LET messageIndex == FindIndex(h[g.branch].messages, messageId)
                 keep == IF messageIndex + 1 <= Len(cp) THEN messageIndex + 1 ELSE Len(cp)
                 newPath == Append(SubSeq(cp, 1, keep), branchIndex)
             IN  [path |-> newPath, threw |-> RenderChatExt(h, newPath).threw]

\* handleMessageSubmit of extension.js with editingMessageId = editing
\* (lines 243-258). The call of sendToBotAndAppend, a function the script
\* never defines, throws after the edit is done.
EditSubmitExt(h, cp, nid, editing, content) ==
    LET g == GetCurrentBranchExt(h, cp)
        nothing == [heap |-> h, path |-> cp, editing |-> editing,
                    ret |-> 0, threw |-> FALSE]
    IN  IF g.threw \/ g.branch = 0 THEN [nothing EXCEPT !.threw = TRUE]
        ELSE IF FindIndex(h[g.branch].messages, editing) = -1 THEN nothing
        ELSE LET c == CreateNewBranchExt(h, cp, editing, nid, content)
                 s == SwitchBranchExt(c.heap, cp, editing, c.ret)
             IN  [heap |-> c.heap, path |-> s.path,
                  editing |-> IF s.threw THEN editing ELSE NoId,
                  ret |-> c.ret, threw |-> TRUE]

\* editMessage of extension.js (lines 229-237)
EditMessageExtThrows(h, cp, messageId) ==
    LET g == GetCurrentBranchExt(h, cp)
    IN  \/ g.threw
        \/ g.branch = 0
        \/ FindIndex(h[g.branch].messages, messageId) = -1

\* the edit button of messageId, then the submit of the new text
EditMessageOpExt(h, cp, nid, editing, messageId, content) ==
    IF EditMessageExtThrows(h, cp, messageId)
    THEN [heap |-> h, path |-> cp, editing |-> editing, ret |-> 0, threw |-> TRUE]
    ELSE EditSubmitExt(h, cp, nid, messageId, content)

ExtMessageIds == 1..MaxExtIds

SubmitEditExt(content) ==
    LET r == EditSubmitExt(heap, currentPath, nextId, editingMessageId, content)
    IN  /\ r.ret # 0 => nextId <= MaxExtIds
        /\ heap' = r.heap
        /\ currentPath' = r.path
        /\ editingMessageId' = r.editing
        /\ nextId' = IF r.ret # 0 THEN nextId + 1 ELSE nextId
        /\ UNCHANGED pending

\* handleMessageSubmit of extension.js with no edit pending (lines 259-274)
SubmitNewExt(content) ==
    LET g == GetCurrentBranchExt(heap, currentPath)
    IN  IF g.threw \/ g.branch = 0 THEN UNCHANGED vars
        ELSE /\ nextId <= MaxExtIds
             /\ heap' = [heap EXCEPT ![g.branch].messages =
                             Append(@, Message(nextId, content, "user"))]
             /\ nextId' = nextId + 1
             /\ UNCHANGED <<currentPath, editingMessageId, pending>>

HandleMessageSubmitExt(content) ==
    IF content = "" THEN UNCHANGED vars
    ELSE IF editingMessageId # NoId THEN SubmitEditExt(content)
    ELSE SubmitNewExt(content)

EditMessageExt(messageId) ==
    /\ editingMessageId' =
           IF EditMessageExtThrows(heap, currentPath, messageId)
           THEN editingMessageId ELSE messageId
    /\ UNCHANGED <<heap, currentPath, nextId, pending>>

SwitchBranchCallExt(messageId, branchIndex) ==
    /\ currentPath' = SwitchBranchExt(heap, currentPath, messageId, branchIndex).path
    /\ UNCHANGED <<heap, editingMessageId, nextId, pending>>

\* No 'message' is ever posted to the extension host, because
\* sendToBotAndAppend throws first; so no 'response' event arrives.
NextExt ==
    \/ \E content \in Contents \cup {""} : HandleMessageSubmitExt(content)
    \/ \E messageId \in ExtMessageIds : EditMessageExt(messageId)
    \/ \E messageId \in ExtMessageIds, branchIndex \in BranchArgs :
           SwitchBranchCallExt(messageId, branchIndex)
    \/ StartNewChat

SpecExt == Init /\ [][NextExt]_vars

\* what the page of src/extension.js shows: the last render
ChatBoxExt == RenderChatExt(heap, currentPath).out

\* the edit button of a painted user message (lines 407-413)
ClickEditExt ==
    LET box == ChatBoxExt
    IN  \E k \in 1..Len(box) :
            /\ box[k].message.sender = "user"
            /\ EditMessageExt(box[k].message.id)

\* a branch button or an arrow of a painted fork point (lines 361-398)
ClickBranchExt ==
    LET box == ChatBoxExt
    IN  \E k \in 1..Len(box) :
            /\ box[k].hasBranches
            /\ \E branchIndex \in BranchControls(box[k]) :
                   SwitchBranchCallExt(box[k].message.id, branchIndex)

\* the events the page of src/extension.js offers
NextExtUI ==
    \/ \E content \in Contents \cup {""} : HandleMessageSubmitExt(content)
    \/ ClickEditExt
    \/ ClickBranchExt
    \/ StartNewChat

SpecExtUI == Init /\ [][NextExtUI]_vars

\* ================================================= src/web-app/scripts.js
\* The page script of src/web-app keeps a tree of its own shape: the
\* children of a branch are keyed 0, 1, 2, ... directly under
\* branch.branches, a child holds a copy of the parent's messages up to the
\* edited one, and branch.parent is the index of the edited message. It has
\* no bot, no switchBranch and no new chat. Its messages are records
\* [id, content, isEdited]; currentEditingMessageId is editingMessageId.
MaxAppIds == 3      \* message ids handed out by generateMessageId of the page
MaxAppBranches == 3 \* branches the edits of the page create
AppRootKey == 0     \* state.chatBranches.currentPath[0]

AppMessageIds == 1..MaxAppIds

AppMessage(id, content, isEdited) ==
    [id |-> id, content |-> content, isEdited |-> isEdited]

\* state.chatBranches (lines 4-13); parent: null is written -1
InitApp ==
    /\ heap = <<[messages |-> <<>>, branches |-> EmptyMap, parent |-> -1]>>
    /\ currentPath = <<AppRootKey>>
    /\ editingMessageId = NoId
    /\ nextId = 1
    /\ pending = 0

\* getCurrentBranch() of the page (lines 106-112); 0 stands for undefined
RECURSIVE GetCurrentBranchAppFrom(_, _, _, _)
GetCurrentBranchAppFrom(h, cp, cur, i) ==
    IF i > Len(cp) THEN cur
    ELSE IF cp[i] \notin DOMAIN h[cur].branches THEN 0
    ELSE GetCurrentBranchAppFrom(h, cp, h[cur].branches[cp[i]], i + 1)

GetCurrentBranchApp(h, cp) == GetCurrentBranchAppFrom(h, cp, RootRef, 2)

\* findMessage of createNewBranch (lines 120-136): depth-first over the
\* whole tree, the messages of a branch before its children, the children in
\* key order; the first branch that holds messageId wins
RECURSIVE FindMessageApp(_, _, _, _)
RECURSIVE FindMessageInChildrenApp(_, _, _, _, _)
FindMessageApp(h, messageId, branch, path) ==
    LET index == FindIndex(h[branch].messages, messageId)
    IN  IF index # -1
        THEN [found |-> TRUE, branch |-> branch, path |-> path, index |-> index]
        ELSE FindMessageInChildrenApp(h, messageId, branch, path, 0)

FindMessageInChildrenApp(h, messageId, branch, path, key) ==
    IF key \notin DOMAIN h[branch].branches
    THEN [found |-> FALSE, branch |-> RootRef, path |-> <<AppRootKey>>, index |-> -1]
    ELSE LET f == FindMessageApp(h, messageId, h[branch].branches[key],
                                 Append(path, key))
         IN  IF f.found THEN f
             ELSE FindMessageInChildrenApp(h, messageId, branch, path, key + 1)

\* createNewBranch(messageId, editedContent) of the page (lines 114-162):
\* the tree and the current path afterwards
CreateNewBranchApp(h, cp, messageId, editedContent) ==
    LET f == FindMessageApp(h, messageId, RootRef, <<AppRootKey>>)
    IN  IF ~f.found THEN [heap |-> h, path |-> cp, done |-> FALSE]
        ELSE
        LET newBranchKey == Cardinality(DOMAIN h[f.branch].branches)
            copy == SliceTo(h[f.branch].messages, f.index + 1)
            edited == [copy EXCEPT ![f.index + 1] =
                          AppMessage(@.id, editedContent, TRUE)]
            parentBranch == [h[f.branch] EXCEPT
                                !.branches = Put(@, newBranchKey, Len(h) + 1)]
        IN  [heap |-> Append([h EXCEPT ![f.branch] = parentBranch],
                             [messages |-> edited, branches |-> EmptyMap,
                              parent |-> f.index]),
             path |-> Append(f.path, newBranchKey),
             done |-> TRUE]

\* the messages of branch from index from (0-based) on, as getMessages
\* pushes them (lines 228-233)
RECURSIVE GetMessagesAppFrom(_, _, _, _)
GetMessagesAppFrom(h, cp, cur, i) ==
    IF i > Len(cp) \/ cp[i] \notin DOMAIN h[cur].branches THEN <<>>
    ELSE LET branch == h[cur].branches[cp[i]]
         IN  SliceFrom(h[branch].messages, h[branch].parent + 1)
                 \o GetMessagesAppFrom(h, cp, branch, i + 1)

\* the entries getMessages pushes for the branches of the path (lines
\* 221-236): the message, its depth mark, and (not in the code) the branch
\* object it was read from
RECURSIVE GetEntriesAppFrom(_, _, _, _, _)
GetEntriesAppFrom(h, cp, cur, i, depth) ==
    IF i > Len(cp) \/ cp[i] \notin DOMAIN h[cur].branches THEN <<>>
    ELSE LET branch == h[cur].branches[cp[i]]
             own == SliceFrom(h[branch].messages, h[branch].parent + 1)
         IN  [j \in 1..Len(own) |->
                 [message |-> own[j], depth |-> depth + 1, from |-> branch]]
                 \o GetEntriesAppFrom(h, cp, branch, i + 1, depth + 1)

\* getMessages() of the page (lines 206-238) with the depth marks
GetEntriesApp(h, cp) ==
    [j \in 1..Len(h[RootRef].messages) |->
        [message |-> h[RootRef].messages[j], depth |-> 0, from |-> RootRef]]
        \o GetEntriesAppFrom(h, cp, RootRef, 2, 0)

\* getMessages() of the page (lines 198-239), without the depth marks
GetMessagesApp(h, cp) ==
    h[RootRef].messages \o GetMessagesAppFrom(h, cp, RootRef, 2)

\* addMessage(content) (lines 89-100), called by the send button with the
\* trimmed input when it is not empty (lines 38-45)
AddMessageApp(content) ==
    LET cur == GetCurrentBranchApp(heap, currentPath)
    IN  /\ cur # 0
        /\ nextId <= MaxAppIds
        /\ heap' = [heap EXCEPT ![cur].messages =
                        Append(@, AppMessage(nextId, content, FALSE))]
        /\ nextId' = nextId + 1
        /\ UNCHANGED <<currentPath, editingMessageId, pending>>

\* the edit button of a rendered message (lines 260-266)
ClickEditApp ==
    LET shown == GetMessagesApp(heap, currentPath)
    IN  \E k \in 1..Len(shown) :
            /\ editingMessageId' = shown[k].id
            /\ UNCHANGED <<heap, currentPath, nextId, pending>>

\* the save button of the edit dialog (lines 58-66)
SaveEditApp(content) ==
    /\ editingMessageId # NoId
    /\ LET c == CreateNewBranchApp(heap, currentPath, editingMessageId, content)
       IN  /\ c.done => Len(heap) <= MaxAppBranches
           /\ heap' = c.heap
           /\ currentPath' = c.path
    /\ editingMessageId' = NoId
    /\ UNCHANGED <<nextId, pending>>

\* the cancel button of the edit dialog: closeEditModal (lines 84-87)
CloseEditModal ==
    /\ editingMessageId # NoId
    /\ editingMessageId' = NoId
    /\ UNCHANGED <<heap, currentPath, nextId, pending>>

NextApp ==
    \/ \E content \in Contents : AddMessageApp(content)
    \/ ClickEditApp
    \/ \E content \in Contents : SaveEditApp(content)
    \/ CloseEditModal

SpecApp == InitApp /\ [][NextApp]_vars

\* ===================================================== src/unnamed/part_004
\* The webview script of src/unnamed/part_004 keeps flat branches:
\* chatBranches.branches[1..n], each a list of messages [id, text, sender],
\* and chatBranches.currentBranch. Here heap[n] is branches[n] and
\* currentPath is <<currentBranch>>. The model takes the events its page
\* offers: the send button, the new chat button, the edit buttons and the
\* branch buttons that renderChat painted, and the responses of the host.
MaxFlatIds == 5     \* message ids handed out by generateMessageId of part_004

FlatMessage(id, text, sender) == [id |-> id, text |-> text, sender |-> sender]

FlatBranch(messages) == [messages |-> messages]

\* chatBranches and editingMessageId (lines 112-121)
InitFlat ==
    /\ heap = <<FlatBranch(<<>>)>>
    /\ currentPath = <<1>>
    /\ editingMessageId = NoId
    /\ nextId = 1
    /\ pending = 0

\* Array.prototype.slice(0, end), where a negative end counts from the end
FlatSlice(messages, end) ==
    IF end >= 0 THEN SubSeq(messages, 1, end)
    ELSE SubSeq(messages, 1, Len(messages) + end)

\* renderChat (lines 203-207): does another branch hold a different message
\* at index i (0-based)
FlatHasBranches(h, cur, i) ==
    \E id \in 1..Len(h) :
        /\ id # cur
        /\ i < Len(h[id].messages)
        /\ h[id].messages[i + 1].id # h[cur].messages[i + 1].id

\* the loop of renderChat (lines 201-216) from index i on: branchPoint (-1
\* for null) and commonMessages. !branchPoint is true for null and for 0.
RECURSIVE FlatScan(_, _, _, _, _)
FlatScan(h, cur, i, branchPoint, commonMessages) ==
    IF i >= Len(h[cur].messages)
    THEN [branchPoint |-> branchPoint, commonMessages |-> commonMessages]
    ELSE LET bp == IF FlatHasBranches(h, cur, i) /\ branchPoint \in {-1, 0}
                   THEN i ELSE branchPoint
             common == IF i < bp \/ bp = -1
                       THEN Append(commonMessages, h[cur].messages[i + 1])
                       ELSE commonMessages
         IN  FlatScan(h, cur, i + 1, bp, common)

\* renderChat() of part_004 (lines 192-247): the messages painted, in
\* order, and the branch buttons painted on the branch point
RenderChatFlat(h, cur) ==
    LET scan == FlatScan(h, cur, 0, -1, <<>>)
        bp == scan.branchPoint
    IN  IF bp # -1
        THEN [out |-> scan.commonMessages \o <<h[cur].messages[bp + 1]>>
                          \o SliceFrom(h[cur].messages, bp + 1),
              buttons |-> {id \in 1..Len(h) : Len(h[id].messages) > bp}]
        ELSE [out |-> scan.commonMessages
                          \o SliceFrom(h[cur].messages, Len(scan.commonMessages)),
              buttons |-> {}]

\* the edit branch of sendMessage (lines 137-154): the branches and the
\* current branch afterwards
SendEditFlat(h, cur, editing, messageObj) ==
    LET newBranchId == Len(h) + 1
        originalBranch == h[cur].messages
        messageIndex == FindIndex(originalBranch, editing)
    IN  [heap |-> Append(h, FlatBranch(Append(FlatSlice(originalBranch, messageIndex),
                                              messageObj))),
         current |-> newBranchId]

\* sendMessage() of part_004 (lines 127-163) with text in the input box
SendMessageFlat(text) ==
    LET cur == currentPath[1]
        messageObj == FlatMessage(nextId, text, "user")
    IN  /\ nextId <= MaxFlatIds
        /\ pending < MaxPending
        /\ IF editingMessageId # NoId
           THEN LET r == SendEditFlat(heap, cur, editingMessageId, messageObj)
                IN  /\ heap' = r.heap
                    /\ currentPath' = <<r.current>>
                    /\ editingMessageId' = NoId
           ELSE /\ heap' = [heap EXCEPT ![cur].messages = Append(@, messageObj)]
                /\ UNCHANGED <<currentPath, editingMessageId>>
        /\ nextId' = nextId + 1
        /\ pending' = pending + 1

\* startNewChat() of part_004 (lines 165-175)
StartNewChatFlat ==
    /\ heap' = <<FlatBranch(<<>>)>>
    /\ currentPath' = <<1>>
    /\ UNCHANGED <<editingMessageId, nextId, pending>>

\* editMessage(messageId) of part_004 (lines 177-185), from the edit button
\* of a painted user message
EditMessageFlat ==
    LET box == RenderChatFlat(heap, currentPath[1]).out
    IN  \E k \in 1..Len(box) :
            /\ box[k].sender = "user"
            /\ editingMessageId' = box[k].id
            /\ UNCHANGED <<heap, currentPath, nextId, pending>>

\* switchBranch(branchId) of part_004 (lines 187-190), from a painted
\* branch button
SwitchBranchFlat ==
    \E branchId \in RenderChatFlat(heap, currentPath[1]).buttons :
        /\ currentPath' = <<branchId>>
        /\ UNCHANGED <<heap, editingMessageId, nextId, pending>>

\* the 'response' case of the message listener of part_004 (lines 291-304)
OnResponseFlat ==
    /\ pending > 0
    /\ nextId <= MaxFlatIds
    /\ heap' = [heap EXCEPT ![currentPath[1]].messages =
                    Append(@, FlatMessage(nextId, BotText, "bot"))]
    /\ nextId' = nextId + 1
    /\ pending' = pending - 1
    /\ UNCHANGED <<currentPath, editingMessageId>>

NextFlat ==
    \/ \E text \in Contents : SendMessageFlat(text)
    \/ StartNewChatFlat
    \/ EditMessageFlat
    \/ SwitchBranchFlat
    \/ OnResponseFlat

SpecFlat == InitFlat /\ [][NextFlat]_vars

\* ===================================================== src/unnamed/part_001
\* The page script of src/unnamed/part_001 keeps the chat in the document
\* only: the children of the .messages container, each with a .message-text
\* div. Here heap[i] is the i-th message div, [text, isUser], and
\* editingMessageId is the position of the .message-text div that
\* editingMessage refers to (NoId for null); pending counts the timers of
\* the simulated bot that have not fired yet. It has no tree and no path.
MaxDomMessages == 6     \* message divs in the .messages container

DomBotText == "bot"     \* the constant reply of the simulated bot (line 104)

DomMessage(text, isUser) == [text |-> text, isUser |-> isUser]

InitDom ==
    /\ heap = <<>>
    /\ currentPath = <<>>
    /\ editingMessageId = NoId
    /\ nextId = 1
    /\ pending = 0

\* createMessage(text, isUser) (lines 9-85): appends one message div
CreateMessage(h, text, isUser) == Append(h, DomMessage(text, isUser))

\* the onclick of the edit button of user message i (lines 43-52)
DomClickEdit ==
    \E i \in 1..Len(heap) :
        /\ heap[i].isUser
        /\ editingMessageId' = i
        /\ UNCHANGED <<heap, currentPath, nextId, pending>>

\* handleSubmit in edit mode (lines 92-96): editingMessage.textContent = text
HandleSubmitEdit(h, editing, text) == [h EXCEPT ![editing].text = text]

\* the messages handleSubmit (lines 87-111) leaves for a non-empty text
SubmitResultDom(h, editing, text) ==
    IF editing # NoId THEN HandleSubmitEdit(h, editing, text)
    ELSE CreateMessage(h, text, TRUE)

\* handleSubmit (lines 87-111) with a non-empty trimmed text
DomHandleSubmit ==
    \E text \in Contents :
        IF editingMessageId # NoId
        THEN /\ heap' = HandleSubmitEdit(heap, editingMessageId, text)
             /\ editingMessageId' = NoId
             /\ UNCHANGED <<currentPath, nextId, pending>>
        ELSE /\ Len(heap) + pending + 2 <= MaxDomMessages
             /\ heap' = CreateMessage(heap, text, TRUE)
             /\ pending' = pending + 1
             /\ UNCHANGED <<currentPath, editingMessageId, nextId>>

\* the timer of the simulated bot fires (lines 102-105)
DomBotReply ==
    /\ pending > 0
    /\ heap' = CreateMessage(heap, DomBotText, FALSE)
    /\ pending' = pending - 1
    /\ UNCHANGED <<currentPath, editingMessageId, nextId>>

\* Escape in the input while editing (lines 127-134)
DomEscape ==
    /\ editingMessageId # NoId
    /\ editingMessageId' = NoId
    /\ UNCHANGED <<heap, currentPath, nextId, pending>>

NextDom == DomClickEdit \/ DomHandleSubmit \/ DomBotReply \/ DomEscape

SpecDom == InitDom /\ [][NextDom]_vars

\* ============================= src/src/webview/scripts.js: the arrow keys
\* appendMessageToChat registers, for every fork point it paints, two
\* keydown listeners on the document (lines 383-406), and nothing removes
\* them: chatBox.innerHTML = '' detaches the arrows they hold, not the
\* listeners. In this machine pending is the list of those listeners, in
\* the order of registration. A listener acts only when its arrow was
\* enabled and its entry active at the time of the render, both fixed at
\* registration, so only those are kept. The replies of the host are not
\* taken here: the keys are pressed before they arrive.
MaxKeyIds == 3        \* message ids handed out in the arrow key machine

MaxListeners == 6     \* acting keydown listeners registered on the document

Keys == {"ArrowLeft", "ArrowRight"}

Listener(key, messageId, branchIndex) ==
    [key |-> key, messageId |-> messageId, branchIndex |-> branchIndex]

\* the acting listeners appendMessageToChat registers for one painted entry:
\* the left arrow to currentBranchId - 1, then the right arrow to
\* currentBranchId + 1 (lines 376-406)
ListenersOfEntry(e) ==
    IF ~e.hasBranches \/ ~e.isActive THEN <<>>
    ELSE LET maxBranchId == MaxOf({e.branches[j] : j \in 1..Len(e.branches)})
         IN  (IF e.currentBranchId > 1
              THEN <<Listener("ArrowLeft", e.message.id, e.currentBranchId - 1)>>
              ELSE <<>>)
             \o (IF e.currentBranchId < maxBranchId
                 THEN <<Listener("ArrowRight", e.message.id, e.currentBranchId + 1)>>
                 ELSE <<>>)

RECURSIVE ListenersOf(_)
ListenersOf(entries) ==
    IF entries = <<>> THEN <<>>
    ELSE ListenersOfEntry(Head(entries)) \o ListenersOf(Tail(entries))

\* the listeners one renderChat() adds to the document
Registered(h, cp) == ListenersOf(RenderChat(h, cp).out)

InitKeys ==
    /\ heap = InitialHeap
    /\ currentPath = InitialPath
    /\ editingMessageId = NoId
    /\ nextId = 1
    /\ pending = <<>>

\* a keydown event of key on the document: the listeners registered before
\* the event run in the order of registration, each clicking its arrow,
\* which calls switchBranch (lines 377-381, 395-399); the listeners the
\* renders of those calls register do not run for this event
RECURSIVE Dispatch(_, _, _, _, _)
Dispatch(h, cp, ls, key, i) ==
    IF i > Len(ls) THEN [path |-> cp, added |-> <<>>]
    ELSE IF ls[i].key # key THEN Dispatch(h, cp, ls, key, i + 1)
    ELSE LET s == SwitchBranch(h, cp, ls[i].messageId, ls[i].branchIndex)
             rest == Dispatch(h, s.path, ls, key, i + 1)
         IN  [path |-> rest.path,
              added |-> (IF s.found THEN Registered(h, s.path) ELSE <<>>)
                            \o rest.added]

KeyDown(key) ==
    LET r == Dispatch(heap, currentPath, pending, key, 1)
    IN  /\ Len(pending) + Len(r.added) <= MaxListeners
        /\ currentPath' = r.path
        /\ pending' = pending \o r.added
        /\ UNCHANGED <<heap, editingMessageId, nextId>>

\* handleMessageSubmit (lines 206-259) with the listeners its render adds
KeysSubmit(content) ==
    IF editingMessageId # NoId
    THEN LET r == EditSubmit(heap, currentPath, nextId, editingMessageId, content)
             found == r.ret # 0 /\
                      SwitchBranch(r.heap, currentPath, editingMessageId, r.ret).found
             added == IF found THEN Registered(r.heap, r.path) ELSE <<>>
         IN  /\ r.ret # 0 => nextId <= MaxKeyIds
             /\ Len(pending) + Len(added) <= MaxListeners
             /\ heap' = r.heap
             /\ currentPath' = r.path
             /\ editingMessageId' = r.editing
             /\ nextId' = IF r.ret # 0 THEN nextId + 1 ELSE nextId
             /\ pending' = pending \o added
    ELSE LET activeBranch == GetCurrentBranch(heap, currentPath)
             newMessage == Message(nextId, content, "user")
             h2 == [heap EXCEPT ![activeBranch].messages = Append(@, newMessage)]
             added == Registered(h2, currentPath)
         IN  /\ nextId <= MaxKeyIds
             /\ Len(pending) + Len(added) <= MaxListeners
             /\ heap' = h2
             /\ nextId' = nextId + 1
             /\ pending' = pending \o added
             /\ UNCHANGED <<currentPath, editingMessageId>>

\* a branch button or an arrow of a painted fork point, clicked
KeysClickBranch ==
    LET box == ChatBox
    IN  \E k \in 1..Len(box) :
            /\ box[k].hasBranches
            /\ \E branchIndex \in BranchControls(box[k]) :
                   LET s == SwitchBranch(heap, currentPath, box[k].message.id, branchIndex)
                       added == IF s.found THEN Registered(heap, s.path) ELSE <<>>
                   IN  /\ Len(pending) + Len(added) <= MaxListeners
                       /\ currentPath' = s.path
                       /\ pending' = pending \o added
                       /\ UNCHANGED <<heap, editingMessageId, nextId>>

\* startNewChat() (lines 261-273): the listeners stay on the document
KeysStartNewChat ==
    /\ heap' = InitialHeap
    /\ currentPath' = InitialPath
    /\ UNCHANGED <<editingMessageId, nextId, pending>>

NextKeys ==
    \/ \E content \in Contents : KeysSubmit(content)
    \/ ClickEdit
    \/ KeysClickBranch
    \/ \E key \in Keys : KeyDown(key)
    \/ KeysStartNewChat

SpecKeys == InitKeys /\ [][NextKeys]_vars

\* ========================== src/web-app/js/app.js, src/unnamed/part_000
\* The chat of app.js is a nested document: chat.history is a list of
\* entries [id, index, content, role, diffusion], and each element of
\* entry.diffusion is [diffusion_index, history]. Here heap[r] is one
\* history, heap[HistRoot] is chat.history, and a diffusion holds the
\* reference of its history. id is NoId for an entry without id, and
\* hasDiffusion is FALSE for an entry without the diffusion property.
\* nextId is the clock Date.now() reads, in milliseconds: between two
\* calls it has advanced or it has not.
\* The sample chat keeps its small ids and indices; its time stamp
\* 1732865717047 and the offset 111111 are scaled down, which keeps every
\* comparison the code makes (ids with ids, indices with indices).
HistRoot == 1           \* chat.history

SampleNow == 30         \* the time stamp of the sample chat (line 52)

LoadNow == 31           \* Date.now() of the edit made while the script loads

DiffusionOffset == 100  \* Date.now() + 111111 (line 142)

MaxHistClock == 33      \* the clock stops after this reading

MaxHistEntries == 12    \* entries in the whole chat

Roles == {"user", "assistant"}

Entry(id, index, content, role, hasDiffusion, diffusion) ==
    [id |-> id, index |-> index, content |-> content, role |-> role,
     hasDiffusion |-> hasDiffusion, diffusion |-> diffusion]

Diffusion(diffusion_index, history) ==
    [diffusion_index |-> diffusion_index, history |-> history]

\* entry.diffusion && entry.diffusion.length > 0
HasDiffusions(entry) == entry.hasDiffusion /\ Len(entry.diffusion) > 0

CountEntries(h) ==
    LET RECURSIVE Sum(_)
        Sum(r) == IF r = 0 THEN 0 ELSE Len(h[r]) + Sum(r - 1)
    IN  Sum(Len(h))

\* findAndAddMessage(history, targetIndex, message) of add_message_in_chat
\* (lines 77-119), from entry number i of history r on
RECURSIVE FindAndAddMessage(_, _, _, _, _)
FindAndAddMessage(h, r, i, targetIndex, message) ==
    IF i > Len(h[r]) THEN [heap |-> h, added |-> FALSE]
    ELSE
    LET entry == h[r][i]
        first == entry.diffusion[1].history
    IN  IF entry.index = targetIndex
        THEN IF HasDiffusions(entry) /\ h[first][Len(h[first])].role # "assistant"
             THEN [heap |-> h, added |-> FALSE]
             ELSE LET newMessage == Entry(NoId, entry.index, message.content,
                                          message.role, TRUE, <<>>)
                      to == IF HasDiffusions(entry) THEN first ELSE r
                  IN  [heap |-> [h EXCEPT ![to] = Append(@, newMessage)],
                       added |-> TRUE]
        ELSE LET sub == IF HasDiffusions(entry)
                        THEN FindAndAddMessage(h, first, 1, targetIndex, message)
                        ELSE [heap |-> h, added |-> FALSE]
             IN  IF sub.added THEN sub
                 ELSE FindAndAddMessage(h, r, i + 1, targetIndex, message)

\* findAndEditMessage(history, messageId, newContent) of edit_message_in_chat
\* (lines 135-173), from entry number i of history r on, at time now
RECURSIVE FindAndEditMessage(_, _, _, _, _, _)
FindAndEditMessage(h, r, i, messageId, newContent, now) ==
    IF i > Len(h[r]) THEN [heap |-> h, edited |-> FALSE]
    ELSE
    LET entry == h[r][i]
    IN  IF entry.id = messageId
        THEN LET newDiffusionIndex == now + DiffusionOffset
                 newMessage == Entry(now, newDiffusionIndex, newContent,
                                     entry.role, TRUE, <<>>)
                 newDiffusion == Diffusion(newDiffusionIndex, Len(h) + 1)
                 old == IF entry.hasDiffusion THEN entry.diffusion ELSE <<>>
                 e2 == [entry EXCEPT !.hasDiffusion = TRUE,
                                     !.diffusion = Append(old, newDiffusion)]
             IN  [heap |-> Append([h EXCEPT ![r][i] = e2], <<newMessage>>),
                  edited |-> TRUE]
        ELSE LET sub == IF HasDiffusions(entry)
                        THEN FindAndEditMessage(h, entry.diffusion[1].history, 1,
                                                messageId, newContent, now)
                        ELSE [heap |-> h, edited |-> FALSE]
             IN  IF sub.edited THEN sub
                 ELSE FindAndEditMessage(h, r, i + 1, messageId, newContent, now)

\* the sample chat new_chat (lines 1-69)
SampleChat ==
    << << Entry(12, 1, "x", "assistant", FALSE, <<>>),
          Entry(13, 1, "x", "user", TRUE, <<Diffusion(2, 2)>>),
          Entry(14, 1, "x", "assistant", FALSE, <<>>),
          Entry(15, 1, "x", "user", TRUE,
                <<Diffusion(SampleNow + DiffusionOffset, 3)>>),
          Entry(NoId, 1, "y", "user", TRUE, <<>>) >>,
       << Entry(24, 2, "x", "user", TRUE, <<>>),
          Entry(25, 2, "x", "assistant", FALSE, <<>>) >>,
       << Entry(SampleNow, SampleNow + DiffusionOffset, "y", "user", TRUE, <<>>) >> >>

\* the chat after the two calls the script makes while it loads
\* (lines 182-199): the edit of message 15 and the add to index 1
LoadedChat ==
    LET e == FindAndEditMessage(SampleChat, HistRoot, 1, 15, "y", LoadNow)
    IN  FindAndAddMessage(e.heap, HistRoot, 1, 1,
                          [content |-> "y", role |-> "user"]).heap

InitHist ==
    /\ heap = LoadedChat
    /\ currentPath = <<1>>
    /\ editingMessageId = NoId
    /\ nextId = LoadNow + 1
    /\ pending = 0

HistIndices(h) == UNION {{h[r][i].index : i \in 1..Len(h[r])} : r \in 1..Len(h)}

HistIds(h) == UNION {{h[r][i].id : i \in 1..Len(h[r])} : r \in 1..Len(h)}

AbsentIndex == 99       \* an index no entry has

AbsentId == 98          \* an id no entry has

\* add_message_in_chat({chat, message, targetIndex}) (lines 71-125)
AddMessageInChat ==
    \E targetIndex \in HistIndices(heap) \cup {AbsentIndex},
       content \in Contents, role \in Roles :
        LET r == FindAndAddMessage(heap, HistRoot, 1, targetIndex,
                                   [content |-> content, role |-> role])
        IN  /\ CountEntries(heap) < MaxHistEntries
            /\ heap' = r.heap
            /\ UNCHANGED <<currentPath, editingMessageId, nextId, pending>>

\* edit_message_in_chat({chat, newcontent, message_id}) (lines 126-179)
EditMessageInChat ==
    \E message_id \in (HistIds(heap) \ {NoId}) \cup {AbsentId},
       newContent \in Contents :
        LET r == FindAndEditMessage(heap, HistRoot, 1, message_id, newContent, nextId)
        IN  /\ nextId <= MaxHistClock
            /\ CountEntries(heap) < MaxHistEntries
            /\ heap' = r.heap
            /\ nextId' \in {nextId, nextId + 1}
            /\ UNCHANGED <<currentPath, editingMessageId, pending>>

NextHist == AddMessageInChat \/ EditMessageInChat

SpecHist == InitHist /\ [][NextHist]_vars

\* ------------------------------------------- findPathToIndex of app.js
\* searchHistory(history) of findPathToIndex(chat, targetIndex)
\* (lines 227-252), from entry number i of history r on. path is the path
\* array; visited lists the histories searchHistory was called on, in the
\* order of the calls.
RECURSIVE SearchHistory(_, _, _, _, _, _)
RECURSIVE SearchDiffusions(_, _, _, _, _, _)
SearchHistory(h, r, i, targetIndex, path, visited) ==
    IF i > Len(h[r]) THEN [found |-> FALSE, path |-> path, visited |-> visited]
    ELSE
    LET entry == h[r][i]
    IN  IF entry.index = targetIndex
        THEN [found |-> TRUE, path |-> Append(path, entry.index), visited |-> visited]
        ELSE LET d == IF entry.hasDiffusion
                      THEN SearchDiffusions(h, entry.diffusion, 1, targetIndex,
                                            Append(path, entry.index), visited)
                      ELSE [found |-> FALSE, path |-> path, visited |-> visited]
             IN  IF d.found THEN d
                 ELSE SearchHistory(h, r, i + 1, targetIndex, path, d.visited)

\* the loop over entry.diffusion (lines 240-245), from diffusion number j on
SearchDiffusions(h, diffusion, j, targetIndex, path, visited) ==
    IF j > Len(diffusion) THEN [found |-> FALSE, path |-> path, visited |-> visited]
    ELSE LET sub == SearchHistory(h, diffusion[j].history, 1, targetIndex, path,
                                  Append(visited, diffusion[j].history))
         IN  IF sub.found THEN sub
             ELSE SearchDiffusions(h, diffusion, j + 1, targetIndex, path, sub.visited)

\* findPathToIndex(chat, targetIndex) of app.js (lines 224-256): the indices
\* of the path, <<>> for null
FindPathToIndexApp(h, targetIndex) ==
    SearchHistory(h, HistRoot, 1, targetIndex, <<>>, <<HistRoot>>)

\* ---------------------------------------- findPathToIndex of part_000
\* indexes.indexOf(index), 0-based, -1 when absent
IndexOf(indexes, index) == FindIndex([k \in 1..Len(indexes) |-> [id |-> indexes[k]]], index)

\* searchHistory(history, index) of findPathToIndex(chat, indexes) of
\* part_000 (lines 378-420), from entry number i of history r on; st holds
\* the path array and the flag isWrite
RECURSIVE SearchHistoryByIndexes(_, _, _, _, _, _)
RECURSIVE SearchMatchingDiffusions(_, _, _, _, _, _)
SearchHistoryByIndexes(h, r, i, indexes, index, st) ==
    IF i > Len(h[r]) THEN [st EXCEPT !.isWrite = FALSE]
    ELSE IF ~st.isWrite THEN st
    ELSE
    LET entry == h[r][i]
        pos == IndexOf(indexes, index)
        pushed == [st EXCEPT !.path = Append(@, entry.id)]
    IN  IF entry.index # index
        THEN SearchHistoryByIndexes(h, r, i + 1, indexes, index, st)
        ELSE IF ~entry.hasDiffusion
        THEN SearchHistoryByIndexes(h, r, i + 1, indexes, index, pushed)
        ELSE IF pos < Len(indexes) - 1
        THEN IF Len(entry.diffusion) > 0
             THEN LET d == SearchMatchingDiffusions(h, entry.diffusion, 1, indexes,
                                                    indexes[pos + 2],
                                                    [st |-> st, isDiffusion |-> FALSE])
                      after == IF d.isDiffusion THEN d.st
                               ELSE [d.st EXCEPT !.path = Append(@, entry.id)]
                  IN  SearchHistoryByIndexes(h, r, i + 1, indexes, index, after)
             ELSE SearchHistoryByIndexes(h, r, i + 1, indexes, index, st)
        ELSE SearchHistoryByIndexes(h, r, i + 1, indexes, index, pushed)

\* the loop over entry.diffusion (lines 398-405): every diffusion whose
\* diffusion_index is the next index of indexes is searched
SearchMatchingDiffusions(h, diffusion, j, indexes, next, acc) ==
    IF j > Len(diffusion) THEN acc
    ELSE IF diffusion[j].diffusion_index = next
    THEN SearchMatchingDiffusions(h, diffusion, j + 1, indexes, next,
             [st |-> SearchHistoryByIndexes(h, diffusion[j].history, 1, indexes,
                                            next, acc.st),
              isDiffusion |-> TRUE])
    ELSE SearchMatchingDiffusions(h, diffusion, j + 1, indexes, next, acc)

\* findPathToIndex(chat, indexes) of part_000 (lines 374-428), for a
\* non-empty indexes: the ids of the messages to paint
FindPathToIndex(h, indexes) ==
    SearchHistoryByIndexes(h, HistRoot, 1, indexes, indexes[1],
                           [path |-> <<>>, isWrite |-> TRUE]).path

\* findMessageById(history, id) of render_chat_from_path (lines 438-452):
\* <<entry>> for the first entry of that id in depth-first order, <<>> for null
RECURSIVE FindMessageById(_, _, _, _)
RECURSIVE FindMessageInDiffusions(_, _, _, _)
FindMessageById(h, r, i, id) ==
    IF i > Len(h[r]) THEN <<>>
    ELSE LET entry == h[r][i]
             found == IF entry.hasDiffusion
                      THEN FindMessageInDiffusions(h, entry.diffusion, 1, id)
                      ELSE <<>>
         IN  IF entry.id = id THEN <<entry>>
             ELSE IF found # <<>> THEN found
             ELSE FindMessageById(h, r, i + 1, id)

FindMessageInDiffusions(h, diffusion, j, id) ==
    IF j > Len(diffusion) THEN <<>>
    ELSE LET found == FindMessageById(h, diffusion[j].history, 1, id)
         IN  IF found # <<>> THEN found
             ELSE FindMessageInDiffusions(h, diffusion, j + 1, id)

\* render_chat_from_path(path) (lines 432-470): the messages painted
RECURSIVE RenderChatFromPath(_, _)
RenderChatFromPath(h, path) ==
    IF path = <<>> THEN <<>>
    ELSE FindMessageById(h, HistRoot, 1, Head(path)) \o RenderChatFromPath(h, Tail(path))

\* --------------------------------------------------------------- properties
\* the branches getCurrentBranch walks through, root first
RECURSIVE ChainFrom(_, _, _, _)
ChainFrom(h, cp, cur, pathIndex) ==
    IF pathIndex < Len(cp) - 1
    THEN LET next == FindBranching(h[cur], cp[pathIndex + 2], 1)
         IN  IF next = 0 THEN <<cur>>
             ELSE <<cur>> \o ChainFrom(h, cp, next, pathIndex + 1)
    ELSE <<cur>>

Chain(h, cp) == ChainFrom(h, cp, RootRef, 0)

\* the branches on the current path
OnPath(h, cp) == {Chain(h, cp)[k] : k \in 1..Len(Chain(h, cp))}

\* every message id in the tree
AllIds(h) == UNION {IdsOf(h[r].messages) : r \in 1..Len(h)}

\* messageId sits in branch B, which is on the current path, and has no forks
Unforked(h, cp, B, messageId) ==
    /\ B \in OnPath(h, cp)
    /\ messageId \in IdsOf(h[B].messages)
    /\ messageId \notin DOMAIN h[B].branches

\* the shape the first fork of messageId in B must leave in heap h2
FirstForkShape(h, h2, B, messageId, content) ==
    LET i == FindIndex(h[B].messages, messageId)
        t == h2[B].branches
    IN  /\ Len(h2) >= Len(h)
        /\ messageId \in DOMAIN t
        /\ DOMAIN t[messageId] = {1, 2}
        /\ h2[t[messageId][1]].messages = SubSeq(h[B].messages, i + 2, Len(h[B].messages))
        /\ Len(h2[t[messageId][2]].messages) = 1
        /\ h2[t[messageId][2]].messages[1].content = content
        /\ h2[t[messageId][2]].messages[1].id \notin AllIds(h)
        /\ h2[B].messages = SubSeq(h[B].messages, 1, i + 1)

\* C1 for src/src/webview/scripts.js: whenever createNewBranch makes the
\* first fork of a message that sits at index i of a branch B on the current
\* path, B.branches[messageId] gets exactly the children "1" (the old
\* B.messages[i+1..], in order) and "2" (one new message with the new
\* content), and B.messages becomes the old B.messages[0..i].
C1_FirstFork ==
    \A messageId \in MessageIds, content \in Contents :
        \A B \in OnPath(heap, currentPath) :
            LET c == CreateNewBranch(heap, currentPath, messageId, nextId, content)
            IN  (Unforked(heap, currentPath, B, messageId) /\ c.ret # 0) =>
                    FirstForkShape(heap, c.heap, B, messageId, content)

\* C1 for src/extension.js: the same shape after the first fork of a message
\* of the current branch, the only branch its createNewBranch looks at.
C1_FirstForkExt ==
    \A messageId \in ExtMessageIds, content \in Contents :
        LET g == GetCurrentBranchExt(heap, currentPath)
            B == g.branch
            c == CreateNewBranchExt(heap, currentPath, messageId, nextId, content)
        IN  (/\ ~g.threw
             /\ B # 0
             /\ messageId \in IdsOf(heap[B].messages)
             /\ messageId \notin DOMAIN heap[B].branches) =>
                FirstForkShape(heap, c.heap, B, messageId, content)

\* C2: fork preserves original. Whenever editing a message creates branch
\* "2" at it, switchBranch(id, 1) followed by a render shows exactly the
\* messages the render showed before the edit.
C2_ForkPreservesOriginal ==
    \A messageId \in MessageIds, content \in Contents :
        LET r == EditMessageOp(heap, currentPath, nextId, editingMessageId,
                               messageId, content)
            s == SwitchBranch(r.heap, r.path, messageId, 1)
        IN  r.ret = 2 =>
                /\ ~s.threw
                /\ ~RenderChat(r.heap, s.path).threw
                /\ Project(r.heap, s.path) = Project(heap, currentPath)

\* C3: from a root branch holding [A, B] and nothing else, with the current
\* path at the root, editing B makes the current path select branch "2" of B
\* and the render show exactly [A, edited message].
C3_EditReplacesInView ==
    \A content \in Contents :
        (/\ Len(heap) = 1
         /\ currentPath = <<RootKey>>
         /\ Len(heap[RootRef].messages) = 2
         /\ heap[RootRef].branches = EmptyMap) =>
            LET A == heap[RootRef].messages[1]
                B == heap[RootRef].messages[2]
                r == EditMessageOp(heap, currentPath, nextId, editingMessageId,
                                   B.id, content)
            IN  /\ r.ret = 2
                /\ r.path = <<RootKey, 2>>
                /\ Project(r.heap, r.path) = <<A, Message(nextId, content, "user")>>

\* C4: after an edit that created a branch, the current (leaf) branch is the
\* newly created child of the edited message, and it holds exactly the new
\* message.
C4_PathLeadsToNewChild ==
    \A messageId \in MessageIds, content \in Contents :
        LET r == EditMessageOp(heap, currentPath, nextId, editingMessageId,
                               messageId, content)
            child == Len(r.heap)
        IN  r.ret # 0 =>
                /\ GetCurrentBranch(r.heap, r.path) = child
                /\ r.heap[child].messages = <<Message(nextId, content, "user")>>
                /\ \E B \in OnPath(r.heap, r.path) :
                       /\ messageId \in IdsOf(r.heap[B].messages)
                       /\ messageId \in DOMAIN r.heap[B].branches
                       /\ r.ret \in DOMAIN r.heap[B].branches[messageId]
                       /\ r.heap[B].branches[messageId][r.ret] = child

\* cp[i..] names, element by element, a child that exists under the branch
\* selected so far (under any of its fork points)
RECURSIVE ResolvesFrom(_, _, _, _)
ResolvesFrom(h, cp, cur, i) ==
    \/ i > Len(cp)
    \/ \E messageId \in DOMAIN h[cur].branches :
           /\ cp[i] \in DOMAIN h[cur].branches[messageId]
           /\ ResolvesFrom(h, cp, h[cur].branches[messageId][cp[i]], i + 1)

Resolves(h, cp) ==
    /\ Len(cp) >= 1
    /\ cp[1] = RootKey
    /\ ResolvesFrom(h, cp, RootRef, 2)

\* C5: in every reachable state the current path resolves to an existing
\* chain of branches.
C5_PathResolves == Resolves(heap, currentPath)

\* messageId has a child branchIndex in a branch on the current path
TargetExists(h, cp, messageId, branchIndex) ==
    \E B \in OnPath(h, cp) :
        /\ messageId \in IdsOf(h[B].messages)
        /\ messageId \in DOMAIN h[B].branches
        /\ branchIndex \in DOMAIN h[B].branches[messageId]

\* C6: no tree operation throws, for any argument in any reachable state.
C6_NeverThrows ==
    /\ ~RenderChat(heap, currentPath).threw
    /\ \A messageId \in MessageIds :
           /\ ~EditMessageThrows(heap, currentPath, messageId)
           /\ \A content \in Contents :
                  ~CreateNewBranch(heap, currentPath, messageId, nextId, content).threw
           /\ \A branchIndex \in BranchArgs :
                  ~SwitchBranch(heap, currentPath, messageId, branchIndex).threw

\* C6 for the events the rendered page offers: no click on the edit button
\* of a rendered message throws.
C6_EditButtonNeverThrows ==
    LET box == ChatBox
    IN  \A k \in 1..Len(box) :
            box[k].message.sender = "user" =>
                ~EditMessageThrows(heap, currentPath, box[k].message.id)

\* C7: three calls of createNewBranch on a message that has no forks return
\* 2, 3 and 4, and leave the message with exactly the children 1..4.
C7_MonotonicIndices ==
    \A messageId \in TestMessageIds, content \in Contents :
        \A B \in OnPath(heap, currentPath) :
            LET c1 == CreateNewBranch(heap, currentPath, messageId, nextId, content)
                c2 == CreateNewBranch(c1.heap, currentPath, messageId, nextId + 1, content)
                c3 == CreateNewBranch(c2.heap, currentPath, messageId, nextId + 2, content)
            IN  (Unforked(heap, currentPath, B, messageId) /\ c1.ret # 0) =>
                    /\ <<c1.ret, c2.ret, c3.ret>> = <<2, 3, 4>>
                    /\ DOMAIN c3.heap[B].branches[messageId] = 1..4

\* C8: createNewBranch on a message that already has forks adds exactly one
\* child, under the key one more than the largest key of that message, with
\* exactly one new message; the branch's messages and every branch that
\* existed before are unchanged.
C8_LaterForkKey ==
    \A messageId \in TestMessageIds, content \in Contents :
        \A B \in OnPath(heap, currentPath) :
            LET c == CreateNewBranch(heap, currentPath, messageId, nextId, content)
                old == heap[B].branches[messageId]
                new == c.heap[B].branches[messageId]
                key == MaxOf(DOMAIN old) + 1
            IN  (/\ messageId \in IdsOf(heap[B].messages)
                 /\ messageId \in DOMAIN heap[B].branches
                 /\ c.ret # 0) =>
                    /\ c.ret = key
                    /\ DOMAIN new = DOMAIN old \cup {key}
                    /\ \A k \in DOMAIN old : new[k] = old[k]
                    /\ c.heap[new[key]].messages = <<Message(nextId, content, "user")>>
                    /\ c.heap[B].messages = heap[B].messages
                    /\ \A r \in 1..Len(heap) : r # B => c.heap[r] = heap[r]

\* C9: switchBranch on a target that does not exist leaves the current path
\* unchanged (it never touches the tree).
C9_SwitchMissingTarget ==
    \A messageId \in MessageIds, branchIndex \in BranchArgs :
        ~TargetExists(heap, currentPath, messageId, branchIndex) =>
            LET s == SwitchBranch(heap, currentPath, messageId, branchIndex)
            IN  ~s.threw /\ s.path = currentPath

\* C10: switchBranch on an existing child branchIndex of a message of a
\* branch B on the current path sets the current path to the prefix that
\* reaches B followed by branchIndex, and the current branch is then that
\* child.
C10_SwitchExistingTarget ==
    \A messageId \in MessageIds, branchIndex \in BranchArgs :
        \A k \in 1..Len(Chain(heap, currentPath)) :
            LET B == Chain(heap, currentPath)[k]
                s == SwitchBranch(heap, currentPath, messageId, branchIndex)
            IN  (/\ messageId \in IdsOf(heap[B].messages)
                 /\ messageId \in DOMAIN heap[B].branches
                 /\ branchIndex \in DOMAIN heap[B].branches[messageId]) =>
                    /\ ~s.threw
                    /\ s.path = Append(SubSeq(currentPath, 1, k), branchIndex)
                    /\ GetCurrentBranch(heap, s.path) =
                           heap[B].branches[messageId][branchIndex]

\* C11 for src/src/webview/scripts.js: createNewBranch with a messageId that
\* is in no branch of the tree returns null, does not throw and leaves the
\* tree unchanged (createNewBranch never writes currentPath).
C11_UnknownId ==
    \A messageId \in MessageIds \ AllIds(heap), content \in Contents :
        LET c == CreateNewBranch(heap, currentPath, messageId, nextId, content)
        IN  ~c.threw /\ c.ret = 0 /\ c.heap = heap

\* C11 for src/extension.js: the same for its createNewBranch.
C11_UnknownIdExt ==
    \A messageId \in ExtMessageIds \ AllIds(heap), content \in Contents :
        LET c == CreateNewBranchExt(heap, currentPath, messageId, nextId, content)
        IN  c.ret = 0 /\ c.heap = heap

\* the ids of the messages of the branches on the current path
PathIds(h, cp) == UNION {IdsOf(h[B].messages) : B \in OnPath(h, cp)}

\* C12 for src/src/webview/scripts.js: the edit of a message that is in the
\* tree but in no branch on the current path does not throw and leaves the
\* tree and currentPath unchanged.
C12_OffPathEdit ==
    \A messageId \in AllIds(heap) \ PathIds(heap, currentPath), content \in Contents :
        LET r == EditMessageOp(heap, currentPath, nextId, editingMessageId,
                               messageId, content)
        IN  ~r.threw /\ r.heap = heap /\ r.path = currentPath

\* C12 for src/unnamed/part_004: when the message being edited is in the
\* tree but not in the current branch, the send of the new text builds no
\* branch and leaves the current branch selected.
C12_OffPathEditFlat ==
    \A text \in Contents :
        LET cur == currentPath[1]
            r == SendEditFlat(heap, cur, editingMessageId,
                              FlatMessage(nextId, text, "user"))
        IN  (/\ editingMessageId \in AllIds(heap)
             /\ editingMessageId \notin IdsOf(heap[cur].messages)) =>
                (r.heap = heap /\ r.current = cur)

\* the branches of the page tree on the current path, root first
RECURSIVE AppChainFrom(_, _, _, _)
AppChainFrom(h, cp, cur, i) ==
    IF i > Len(cp) \/ cp[i] \notin DOMAIN h[cur].branches THEN <<cur>>
    ELSE <<cur>> \o AppChainFrom(h, cp, h[cur].branches[cp[i]], i + 1)

AppOnPath(h, cp) ==
    LET chain == AppChainFrom(h, cp, RootRef, 2)
    IN  {chain[k] : k \in 1..Len(chain)}

\* C12 for src/web-app/scripts.js: the branch that the edit of a message
\* forks is a branch on the current path.
C12_EditForksPathApp ==
    editingMessageId # NoId =>
        LET f == FindMessageApp(heap, editingMessageId, RootRef, <<AppRootKey>>)
        IN  f.found /\ f.branch \in AppOnPath(heap, currentPath)

\* the messages a step that adds a message can add
AddedMessages ==
    {Message(nextId, content, sender) :
        content \in Contents \cup {BotText}, sender \in {"user", "bot"}}

\* C13: append-only. In a run of submits and responses with no edit, every
\* step that adds a message appends exactly that message at the end of what
\* the render shows (and a new chat empties it); so the render shows exactly
\* the messages added since the chat began, once each, in call order.
C13_AppendOnly ==
    [][IF heap' = InitialHeap
       THEN Project(heap', currentPath') = <<>>
       ELSE \E m \in AddedMessages :
                Project(heap', currentPath') = Append(Project(heap, currentPath), m)]_vars

\* three messages were added, a response among them, and all are shown
C13_Witness ==
    /\ Len(Project(heap, currentPath)) >= 3
    /\ \E k \in 1..Len(Project(heap, currentPath)) :
           Project(heap, currentPath)[k].sender = "bot"
    /\ \A k \in 1..Len(Project(heap, currentPath)) :
           Project(heap, currentPath)[k].id = nextId - 1 - Len(Project(heap, currentPath)) + k

\* C13 for src/web-app/scripts.js: as long as no edit has made a branch,
\* getMessages yields the messages added, once each, in call order.
C13_AppendOnlyApp ==
    Len(heap) = 1 =>
        LET shown == GetMessagesApp(heap, currentPath)
        IN  /\ Len(shown) = nextId - 1
            /\ \A k \in 1..Len(shown) : shown[k].id = k /\ ~shown[k].isEdited

\* C14 for src/src/webview/scripts.js: a step that adds a message (a submit
\* of new text or a response) appends exactly one new message at the end of
\* the current branch and changes nothing else: not currentPath, not the
\* fork table of that branch, not any other branch.
C14_AddMessageFrame ==
    [][(nextId' = nextId + 1 /\ Len(heap') = Len(heap)) =>
           LET B == GetCurrentBranch(heap, currentPath)
           IN  /\ currentPath' = currentPath
               /\ \E m \in AddedMessages :
                      heap'[B].messages = Append(heap[B].messages, m)
               /\ heap'[B].branches = heap[B].branches
               /\ \A r \in 1..Len(heap) : r # B => heap'[r] = heap[r]]_vars

\* C14 for src/extension.js: in every state its page reaches, the submit
\* of a new message finds the current branch to append to.
C14_AddMessageExt ==
    LET g == GetCurrentBranchExt(heap, currentPath)
    IN  ~g.threw /\ g.branch # 0

\* the branches renderBranch can ever descend into, whatever the current
\* path: those linked from the root through the fork tables of messages
\* that are in the messages of their branch
RECURSIVE LinkedFrom(_, _)
LinkedFrom(h, B) ==
    {B} \cup UNION {LinkedFrom(h, h[B].branches[messageId][k]) :
                       <<messageId, k>> \in
                           {<<m, j>> \in (IdsOf(h[B].messages) \cap DOMAIN h[B].branches)
                                          \X (1..Len(h)) :
                               j \in DOMAIN h[B].branches[m]}}

\* the ids of the messages some current path can bring into the render
ShowableIds(h) == UNION {IdsOf(h[B].messages) : B \in LinkedFrom(h, RootRef)}

\* C15: history is append-only. Every message of the tree can be brought
\* into the render, now and after the edit of any message: no message and
\* no branch is lost.
C15_HistoryKept ==
    /\ AllIds(heap) \subseteq ShowableIds(heap)
    /\ Resolves(heap, currentPath) =>
       \A messageId \in MessageIds, content \in Contents :
           LET r == EditMessageOp(heap, currentPath, nextId, editingMessageId,
                                  messageId, content)
           IN  /\ AllIds(heap) \subseteq AllIds(r.heap)
               /\ AllIds(r.heap) \subseteq ShowableIds(r.heap)

\* every message record of the tree, as (id, content, sender)
AllMessages(h) == UNION {{h[r].messages[i] : i \in 1..Len(h[r].messages)} : r \in 1..Len(h)}

\* C16: no step other than a new chat changes or removes the record of a
\* message that exists (src/src/webview/scripts.js).
C16_RecordsKept ==
    [][heap' # InitialHeap => AllMessages(heap) \subseteq AllMessages(heap')]_vars

\* C16: the same of src/web-app/scripts.js.
C16_RecordsKeptApp ==
    [][AllMessages(heap) \subseteq AllMessages(heap')]_vars

\* C16: no step changes the text or the sender of a message that exists
\* (src/unnamed/part_001).
C16_NoInPlaceEdit ==
    [][/\ Len(heap') >= Len(heap)
       /\ \A i \in 1..Len(heap) : heap'[i] = heap[i]]_vars

\* C17: no two places of the tree hold a message of the same id
\* (src/src/webview/scripts.js).
C17_DistinctIds ==
    \A r1, r2 \in 1..Len(heap) :
        \A i1 \in 1..Len(heap[r1].messages), i2 \in 1..Len(heap[r2].messages) :
            heap[r1].messages[i1].id = heap[r2].messages[i2].id
                => (r1 = r2 /\ i1 = i2)

\* two message records of the same id are one and the same record
OneRecordPerId(h) ==
    \A m1, m2 \in AllMessages(h) : m1.id = m2.id => m1 = m2

\* C17: all message records of the tree have pairwise distinct ids; the
\* message an edit creates has an id of its own (src/web-app/scripts.js).
C17_DistinctIdsApp == OneRecordPerId(heap)

\* C17: the same of src/extension.js, where the first fork leaves the
\* messages after the fork point both in the branch and in child 1.
C17_DistinctIdsExt == OneRecordPerId(heap)

\* the root holds exactly two messages, has no forks and is the only
\* branch, and the current path is at the root
RootOfTwo(h, cp) ==
    /\ Len(h) = 1
    /\ cp = <<RootKey>>
    /\ Len(h[RootRef].messages) = 2
    /\ h[RootRef].branches = EmptyMap

\* after the edit of B to content in h0: the root of h holds exactly [A],
\* child 1 of B exactly [B], child 2 of B exactly one message with content
EditedRootShape(h0, h, content) ==
    LET A == h0[RootRef].messages[1]
        B == h0[RootRef].messages[2]
    IN  /\ h[RootRef].messages = <<A>>
        /\ B.id \in DOMAIN h[RootRef].branches
        /\ DOMAIN h[RootRef].branches[B.id] = {1, 2}
        /\ h[h[RootRef].branches[B.id][1]].messages = <<B>>
        /\ Len(h[h[RootRef].branches[B.id][2]].messages) = 1
        /\ h[h[RootRef].branches[B.id][2]].messages[1].content = content

\* C18: from root messages [A, B], editMessage(B.id, X) leaves the root
\* with exactly [A], child 1 of B with exactly [B] and child 2 of B with
\* exactly one message of content X (src/src/webview/scripts.js).
C18_RootEditShape ==
    \A content \in Contents :
        RootOfTwo(heap, currentPath) =>
            LET r == EditMessageOp(heap, currentPath, nextId, editingMessageId,
                                   heap[RootRef].messages[2].id, content)
            IN  ~r.threw /\ EditedRootShape(heap, r.heap, content)

\* C18: the same of src/extension.js.
C18_RootEditShapeExt ==
    \A content \in Contents :
        RootOfTwo(heap, currentPath) =>
            LET r == EditMessageOpExt(heap, currentPath, nextId, editingMessageId,
                                      heap[RootRef].messages[2].id, content)
            IN  ~r.threw /\ EditedRootShape(heap, r.heap, content)

\* h is a single root branch with no messages and no forks, and cp is a
\* path of length 1 naming it
SingleEmptyRoot(h, cp) ==
    /\ Len(h) = 1
    /\ h[RootRef].messages = <<>>
    /\ h[RootRef].branches = EmptyMap
    /\ Len(cp) = 1
    /\ cp[1] = RootKey
    /\ GetCurrentBranch(h, cp) = RootRef

\* C19: every startNewChat step, from any reachable state, leaves a single
\* root branch with no messages and no forks and a current path of length
\* 1 naming that root (src/src/webview/scripts.js, and src/extension.js,
\* which takes the same step).
C19_StartNew ==
    [][StartNewChat => SingleEmptyRoot(heap', currentPath')]_vars

\* a new chat started after messages were added: the tree is an empty root
\* again while ids have been handed out and a response is still awaited
C19_Witness ==
    /\ SingleEmptyRoot(heap, currentPath)
    /\ nextId >= 4
    /\ pending > 0

\* C19: the same of src/unnamed/part_004: one branch, without messages,
\* which is the current branch.
C19_StartNewFlat ==
    [][StartNewChatFlat =>
          /\ Len(heap') = 1
          /\ heap'[1].messages = <<>>
          /\ currentPath' = <<1>>]_vars

\* C20: renderChat leaves no state behind that influences a later event.
\* The path an arrow key leads to is the one the listeners of a render of
\* the present tree and path lead to, whatever was rendered before.
C20_RenderLeavesNoState ==
    \A key \in Keys :
        Dispatch(heap, currentPath, pending, key, 1).path
            = Dispatch(heap, currentPath, Registered(heap, currentPath), key, 1).path

\* keys lists exactly the indices of table, in ascending order
AscendingKeysOf(keys, table) ==
    /\ {keys[j] : j \in 1..Len(keys)} = DOMAIN table
    /\ \A j, k \in 1..Len(keys) : j < k => keys[j] < keys[k]

\* for every fork point of branch (reached by path) that the current path
\* passes through, and of the branches below it on the path: the entry
\* painted for it lists the indices in ascending order and shows as
\* selected the index the path uses there
RECURSIVE ForkReports(_, _, _, _, _)
ForkReports(h, cp, branch, path, depth) ==
    \A i \in 1..Len(h[branch].messages) :
        LET message == h[branch].messages[i]
            hasBranches == /\ message.id \in DOMAIN h[branch].branches
                           /\ DOMAIN h[branch].branches[message.id] # {}
            isOnCurrentPath == IsOnCurrentPath(cp, path)
        IN  (hasBranches /\ isOnCurrentPath
                /\ cp[Len(path) + 1] \in DOMAIN h[branch].branches[message.id]) =>
                LET table == h[branch].branches[message.id]
                    a == AppendMessageToChat(h, cp, message, TRUE, SortedKeys(DOMAIN table),
                                             depth, TRUE)
                IN  /\ ~a.threw
                    /\ AscendingKeysOf(a.entry.branches, table)
                    /\ a.entry.currentBranchId = cp[Len(path) + 1]
                    /\ ForkReports(h, cp, table[cp[Len(path) + 1]],
                                   Append(path, cp[Len(path) + 1]), depth + 1)

\* C21: every fork point on the active path is painted with its branch
\* indices in ascending order and, as selected, the index the current path
\* uses to pass through it, at every depth (src/src/webview/scripts.js).
C21_ForkReport == ForkReports(heap, currentPath, RootRef, <<currentPath[1]>>, 0)

\* the same walk for src/extension.js
RECURSIVE ForkReportsExt(_, _, _, _)
ForkReportsExt(h, cp, branch, path) ==
    \A i \in 1..Len(h[branch].messages) :
        LET message == h[branch].messages[i]
            hasBranches == /\ message.id \in DOMAIN h[branch].branches
                           /\ DOMAIN h[branch].branches[message.id] # {}
        IN  (hasBranches /\ IsOnCurrentPath(cp, path)
                /\ cp[Len(path) + 1] \in DOMAIN h[branch].branches[message.id]) =>
                LET table == h[branch].branches[message.id]
                IN  /\ AscendingKeysOf(SortedKeys(DOMAIN table), table)
                    /\ FindCurrentBranchIndexExt(h, cp, message.id, 0) = cp[Len(path) + 1]
                    /\ ForkReportsExt(h, cp, table[cp[Len(path) + 1]],
                                      Append(path, cp[Len(path) + 1]))

\* C21: the same of src/extension.js.
C21_ForkReportExt ==
    RootOf(currentPath) # 0 =>
        ForkReportsExt(heap, currentPath, RootRef, <<currentPath[1]>>)

\* the entries of the chat, each with the history that holds it
HistEntries(h) == {<<r, i>> \in (1..Len(h)) \X (1..MaxHistEntries) : i <= Len(h[r])}

\* C22: path round-trip. For every message m of the chat, findPathToIndex
\* of app.js finds a path to m's index, and the messages painted along
\* that path by findPathToIndex and render_chat_from_path of part_000
\* contain m.
C22_PathRoundTrip ==
    \A p \in HistEntries(heap) :
        LET m == heap[p[1]][p[2]]
            resolved == FindPathToIndexApp(heap, m.index)
            painted == RenderChatFromPath(heap, FindPathToIndex(heap, resolved.path))
        IN  /\ resolved.found
            /\ \E k \in 1..Len(painted) : painted[k] = m

\* target indices an absent target is drawn from: one no entry has, one
\* between those of the sample chat, one above every diffusion index
AbsentTargets == {AbsentIndex, 3, MaxHistClock + DiffusionOffset + 1}

\* C23: findPathToIndex of app.js returns null, here the empty path, when
\* no entry of the chat has the target index.
C23_AbsentTargetApp ==
    \A targetIndex \in AbsentTargets :
        targetIndex \notin HistIndices(heap) =>
            /\ ~FindPathToIndexApp(heap, targetIndex).found
            /\ FindPathToIndexApp(heap, targetIndex).path = <<>>

\* C23: findPathToIndex of part_000, asked for the path from index 1 to a
\* target index that no entry of the chat has, returns the empty path.
C23_AbsentTarget ==
    \A targetIndex \in AbsentTargets :
        targetIndex \notin HistIndices(heap) =>
            FindPathToIndex(heap, <<1, targetIndex>>) = <<>>

\* C24: findPathToIndex of app.js descends only into the diffusions that
\* lead to the target: the histories it searches are the root and one
\* history for every further index of the path it returns.
C24_DescendsOnlyToTarget ==
    \A targetIndex \in HistIndices(heap) :
        LET r == FindPathToIndexApp(heap, targetIndex)
        IN  r.found => Len(r.visited) = Len(r.path)

\* C24: the search of app.js stops at the first match: the path it returns
\* ends in the target index, holds it nowhere else, and holds one index
\* for each history between the root and the match.
C24_FirstMatchStops ==
    \A targetIndex \in HistIndices(heap) :
        LET r == FindPathToIndexApp(heap, targetIndex)
        IN  /\ r.found
            /\ r.path[Len(r.path)] = targetIndex
            /\ \A k \in 1..(Len(r.path) - 1) : r.path[k] # targetIndex
            /\ Len(r.path) <= Len(r.visited)

\* the links of the fork tables of h: <<B, messageId, k, child>>
BranchLinks(h) ==
    {l \in (1..Len(h)) \X (1..MaxIds) \X (1..Len(h) + 1) \X (1..Len(h)) :
        /\ l[2] \in DOMAIN h[l[1]].branches
        /\ l[3] \in DOMAIN h[l[1]].branches[l[2]]
        /\ h[l[1]].branches[l[2]][l[3]] = l[4]}

\* C25: the branches linked by the fork tables form a finite tree. Every
\* child was created after the branch whose table holds it, so no branch
\* is its own descendant, and every branch but the root is the child of
\* exactly one entry of one table (src/src/webview/scripts.js).
C25_FiniteTree ==
    /\ \A l \in BranchLinks(heap) : l[4] > l[1]
    /\ \A c \in 2..Len(heap) : Cardinality({l \in BranchLinks(heap) : l[4] = c}) = 1

\* a tree with a fork below a fork
C25_Witness ==
    \E l1, l2 \in BranchLinks(heap) : l1[4] = l2[1]

\* C25: the same of the chat of src/web-app/js/app.js: every history but
\* the root is the history of exactly one diffusion, of an entry of a
\* history created before it.
C25_FiniteTreeHist ==
    LET links == {l \in (1..Len(heap)) \X (1..MaxHistEntries) \X (1..MaxHistEntries)
                          \X (1..Len(heap)) :
                     /\ l[2] <= Len(heap[l[1]])
                     /\ l[3] <= Len(heap[l[1]][l[2]].diffusion)
                     /\ heap[l[1]][l[2]].diffusion[l[3]].history = l[4]}
    IN  /\ \A l \in links : l[4] > l[1]
        /\ \A c \in 2..Len(heap) : Cardinality({l \in links : l[4] = c}) = 1

\* C26 for src/src/webview/scripts.js: the child keys of every fork table
\* are integers >= 1, keys 1 and 2 among them, and the key an edit gives
\* to the branch it creates is 2 or more, so key 1 is never an edit.
C26_ForkKeys ==
    /\ \A l \in BranchLinks(heap) :
           /\ l[3] >= 1
           /\ {1, 2} \subseteq DOMAIN heap[l[1]].branches[l[2]]
    /\ \A messageId \in MessageIds, content \in Contents :
           LET c == CreateNewBranch(heap, currentPath, messageId, nextId, content)
           IN  c.heap # heap => c.ret >= 2

\* C26: every child key of every fork table of the page of src/web-app is
\* an integer >= 1 (the keys of the branches edits created are >= 2).
C26_ForkKeysApp ==
    \A b \in 1..Len(heap) : \A k \in DOMAIN heap[b].branches : k >= 1

\* C27: in the tree of the page of src/web-app a message with isEdited
\* true is the first message of its branch, and that branch was created by
\* an edit (it is not the root).
C27_EditedIsFirstApp ==
    \A b \in 1..Len(heap) : \A k \in 1..Len(heap[b].messages) :
        heap[b].messages[k].isEdited => (k = 1 /\ b # RootRef)

\* C27 for src/src/webview/scripts.js: the message an edit creates carries
\* isEdited and originalMessageId.
C27_EditedMark ==
    \A messageId \in MessageIds, content \in Contents :
        LET c == CreateNewBranch(heap, currentPath, messageId, nextId, content)
            created == c.heap[Len(c.heap)].messages[1]
        IN  c.heap # heap =>
                {"isEdited", "originalMessageId"} \subseteq DOMAIN created

\* handleMessageSubmit() of src/src/webview/scripts.js (lines 205-258) as a
\* function of the state and the text of the text box: the tree, the path
\* and editingMessageId it leaves. The emptied text box returns at once.
SubmitResult(h, cp, nid, editing, content) ==
    IF content = "" THEN [heap |-> h, path |-> cp, editing |-> editing]
    ELSE IF editing # NoId
    THEN LET r == EditSubmit(h, cp, nid, editing, content)
         IN  [heap |-> r.heap, path |-> r.path, editing |-> r.editing]
    ELSE [heap |-> [h EXCEPT ![GetCurrentBranch(h, cp)].messages =
                       Append(@, Message(nid, content, "user"))],
          path |-> cp, editing |-> editing]

C28_CancelApp ==
    [][CloseEditModal =>
          /\ heap' = heap
          /\ currentPath' = currentPath
          /\ editingMessageId' = NoId]_vars

\* C28 for src/unnamed/part_001: Escape leaves the messages alone and
\* clears editingMessage, so that the next submit creates a message.
C28_EscapeDom ==
    [][DomEscape =>
          /\ heap' = heap
          /\ editingMessageId' = NoId
          /\ \A text \in Contents :
                 SubmitResultDom(heap', editingMessageId', text) =
                     CreateMessage(heap, text, TRUE)]_vars

\* the number of fork points between the root and branch B, counted along
\* the parent links of src/src/webview/scripts.js
RECURSIVE ForkDepth(_, _)
ForkDepth(h, B) == IF B = RootRef THEN 0 ELSE 1 + ForkDepth(h, h[B].parent)

\* C29: every entry of the projection carries as depth the number of fork
\* points between the root and the branch that holds its message: 0 for
\* the messages of the root, one more for each fork passed.
C29_DepthIsForks ==
    LET out == RenderChat(heap, currentPath).out
    IN  \A k \in 1..Len(out) : \A B \in 1..Len(heap) :
            (\E i \in 1..Len(heap[B].messages) : heap[B].messages[i] = out[k].message)
                => out[k].depth = ForkDepth(heap, B)

\* a projection that shows a message two forks below the root
C29_Witness ==
    LET out == RenderChat(heap, currentPath).out
    IN  \E k \in 1..Len(out) : \E B \in 1..Len(heap) :
            /\ \E i \in 1..Len(heap[B].messages) : heap[B].messages[i] = out[k].message
            /\ ForkDepth(heap, B) = 2

\* the number of links between the root and branch B of the page of
\* src/web-app, counted by looking up who holds B as a child
RECURSIVE ForkDepthApp(_, _)
ForkDepthApp(h, B) ==
    IF B = RootRef THEN 0
    ELSE LET holder == CHOOSE b \in 1..Len(h) :
                           \E k \in DOMAIN h[b].branches : h[b].branches[k] = B
         IN  1 + ForkDepthApp(h, holder)

\* C29 for the page of src/web-app: the depth mark of every entry of
\* getMessages is the number of forks above the branch it was read from.
C29_DepthIsForksApp ==
    LET out == GetEntriesApp(heap, currentPath)
    IN  \A k \in 1..Len(out) : out[k].depth = ForkDepthApp(heap, out[k].from)

\* C30: whatever was done between the submit of a user message and the
\* arrival of its response (branch switches, edits, new chats), the
\* response is appended directly after a user message: the branch that
\* receives it holds a message before it, and that message is the user's.
C30_ResponseFollowsUser ==
    [][OnResponse =>
          LET B == GetCurrentBranch(heap', currentPath')
              n == Len(heap'[B].messages)
          IN  /\ n >= 2
              /\ heap'[B].messages[n - 1].sender = "user"]_vars

\* C30, the chat part alone: a response is never the first message of a
\* chat, as it is when the chat was started after the message was sent.
C30_ResponseNeverFirst ==
    [][OnResponse => heap'[RootRef].messages[1].sender = "user"]_vars

\* C31: in every reachable state the submit of a non-empty text changes
\* the conversation: it appends a message or creates a fork.
C31_SubmitChanges ==
    \A content \in Contents :
        SubmitResult(heap, currentPath, nextId, editingMessageId, content).heap # heap

\* C31, the reason: a pending edit refers to a message of the current branch
C31_EditingInCurrentBranch ==
    editingMessageId # NoId =>
        FindIndex(heap[GetCurrentBranch(heap, currentPath)].messages,
                  editingMessageId) # -1

\* C32: for every branch B, every key of B.branches is the id of a message
\* that B.messages holds (src/src/webview/scripts.js).
C32_ForkTablesFollow ==
    \A B \in 1..Len(heap) : \A messageId \in DOMAIN heap[B].branches :
        FindIndex(heap[B].messages, messageId) # -1

\* C33: after a step that adds a message (a submit of new text or a
\* response) the new message is the last entry of the projection
\* (src/src/webview/scripts.js).
C33_NewMessageLast ==
    [][(nextId' = nextId + 1 /\ Len(heap') = Len(heap)) =>
           LET out == Project(heap', currentPath')
           IN  /\ Len(out) > 0
               /\ out[Len(out)].id = nextId]_vars

\* C33 for src/extension.js
C33_NewMessageLastExt ==
    [][(nextId' = nextId + 1 /\ Len(heap') = Len(heap)) =>
           LET out == ProjectExt(heap', currentPath')
           IN  /\ Len(out) > 0
               /\ out[Len(out)].id = nextId]_vars

\* C34: the keydown listeners that act on a key press are those of the
\* fork points displayed now, one per key and fork point, each holding the
\* branch index computed from the current state: no listener of an earlier
\* render is left to fire.
C34_OneSwitchPerFork ==
    LET now == Registered(heap, currentPath)
    IN  /\ \A i \in 1..Len(pending) : \E j \in 1..Len(now) : now[j] = pending[i]
        /\ \A i, j \in 1..Len(pending) :
               (/\ pending[i].key = pending[j].key
                /\ pending[i].messageId = pending[j].messageId) => i = j

\* the ids of the entries of a history, in order
HistIdsOf(history) == [k \in 1..Len(history) |-> history[k].id]

\* C35: for every diffusion i1 of a message of chat.history (a message of
\* level i0), findPathToIndex(chat, [i0, i1]) of part_000 returns the ids
\* of the messages of chat.history before that message, then the ids of
\* the messages of the history of the diffusion, and nothing else.
C35_PathOfPair ==
    \A k \in 1..Len(heap[HistRoot]) :
        LET entry == heap[HistRoot][k]
        IN  entry.hasDiffusion =>
                \A j \in 1..Len(entry.diffusion) :
                    FindPathToIndex(heap, <<entry.index, entry.diffusion[j].diffusion_index>>)
                        = HistIdsOf(SubSeq(heap[HistRoot], 1, k - 1))
                              \o HistIdsOf(heap[entry.diffusion[j].history])

\* the diffusion indices of the chat
DiffusionIndices(h) ==
    UNION {UNION {{h[r][i].diffusion[j].diffusion_index :
                      j \in 1..Len(h[r][i].diffusion)} : i \in 1..Len(h[r])} :
           r \in 1..Len(h)}

\* the step of an edit_message_in_chat that finds its message: it appends
\* to that message one diffusion holding one new message with the new
\* content and the role of the original, and the original and every other
\* entry, history and diffusion stay as they were. With fresh, the index
\* of the diffusion is one no diffusion of the chat has yet.
EditShape(fresh) ==
    \E r \in 1..Len(heap) : \E i \in 1..Len(heap[r]) :
        LET entry == heap[r][i]
            new == heap'[r][i].diffusion[Len(heap'[r][i].diffusion)]
            message == heap'[Len(heap')][1]
        IN  /\ Len(heap'[r][i].diffusion) > 0
            /\ heap'[r][i] =
                   [entry EXCEPT !.hasDiffusion = TRUE,
                                 !.diffusion = Append(entry.diffusion, new)]
            /\ new.history = Len(heap')
            /\ fresh => new.diffusion_index \notin DiffusionIndices(heap)
            /\ Len(heap'[Len(heap')]) = 1
            /\ message.content \in Contents
            /\ message.role = entry.role
            /\ message.index = new.diffusion_index
            /\ \A q \in 1..Len(heap) :
                   heap'[q] = IF q = r THEN [heap[r] EXCEPT ![i] = heap'[r][i]]
                              ELSE heap[q]

\* C36: an edit_message_in_chat that finds its message appends to that
\* message exactly one diffusion, under an index different from every
\* diffusion index already in the chat, holding exactly one new message
\* with the new content and the role of the original; nothing else changes.
C36_EditFrame ==
    [][(heap' # heap /\ Len(heap') = Len(heap) + 1) => EditShape(TRUE)]_vars

\* C36 without the freshness of the diffusion index
C36_EditFrameShape ==
    [][(heap' # heap /\ Len(heap') = Len(heap) + 1) => EditShape(FALSE)]_vars

\* C37: edit_message_in_chat finds every message id present in the chat,
\* in whichever diffusion of its fork point the message lies, and reports
\* 'not found' for an id no entry has.
C37_EditFindsEveryId ==
    /\ \A messageId \in HistIds(heap) \ {NoId} :
           FindAndEditMessage(heap, HistRoot, 1, messageId, "x", nextId).edited
    /\ ~FindAndEditMessage(heap, HistRoot, 1, AbsentId, "x", nextId).edited

\* C37, the second half alone
C37_AbsentIdNotFound ==
    /\ ~FindAndEditMessage(heap, HistRoot, 1, AbsentId, "x", nextId).edited
    /\ FindAndEditMessage(heap, HistRoot, 1, AbsentId, "x", nextId).heap = heap

\* C38: add_message_in_chat adds a message only after an assistant reply:
\* a step that adds a message adds it to a history whose last message was
\* the assistant's.
C38_AddAfterAssistant ==
    [][(heap' # heap /\ Len(heap') = Len(heap)) =>
          \A r \in 1..Len(heap) :
              Len(heap'[r]) > Len(heap[r]) =>
                  /\ Len(heap[r]) > 0
                  /\ heap[r][Len(heap[r])].role = "assistant"]_vars

=============================================================================
